---- MODULE Spec2Model ----
(***************************************************************************)
(* Team registry, matchmaking queue and tug-of-war game sessions of the    *)
(* onam-game server.                                                       *)
(*                                                                         *)
(* The team side is src/server/handlers/team.handler.ts; the game side is  *)
(* the countdown/restart variant of the game handler, src/unnamed/part_005 *)
(* lines 1-381.  attemptMatch hands the two matched teams to createGame.   *)
(* The earlier game handler, src/server/handlers/game.handler.ts, which    *)
(* has no countdown and removes a won session by a delayed cleanup, is     *)
(* modelled by the definitions that end in GH and run in SpecCleanup.      *)
(*                                                                         *)
(* Every socket.io event handler runs to completion on node's single       *)
(* thread, so each handler is one action.  A socket id lives as long as    *)
(* its connection: after the disconnect event the id is never used again.  *)
(*                                                                         *)
(* Team and game objects are identified by their ids.  Fields no handler   *)
(* ever reads back (names, createdAt, endedAt, the game sides' teamId and  *)
(* leaderId copies) are left out.                                          *)
(***************************************************************************)
EXTENDS Integers, Sequences, FiniteSets, TLC

\* ----------------------------------------------------------------- bounds
\* sockets that connect in Spec
NumSockets == 4
\* sockets of Spec that send team:create
NumCreators == 2
\* sockets that connect in SpecTeam
NumTeamSockets == 6
\* teams that exist at once in SpecTeam
MaxTeams == 1
\* invite codes generateInviteCode can draw from
NumTeamIds == 2
\* matches that can be made (each match takes a fresh game id)
MaxGames == 2
\* matches made in Spec before its clients stop sending team events
LobbyMatches == 1
\* clicks of one round that are not its top clicker's
MaxMinor == 1
\* clicks a side has made in a session state drawn for SpecStaleTick
MaxDrawnClicks == 2
\* sockets of SpecCleanup that send game:click
NumClickers == 1

\* ------------------------------------------------------ program constants
MAX_TEAM_SIZE == 5
CLICK_POWER == 1
WIN_THRESHOLD == 25
COUNTDOWN_SECONDS == 3

Sockets == 1..NumSockets
TeamSockets == 1..NumTeamSockets
Creators == 1..NumCreators
\* the sockets of Spec that send game:click: a team creator and a socket that
\* joins a team
Clickers == {1, NumSockets}
TeamIds == 1..NumTeamIds
GameIds == 1..MaxGames

VARIABLES
    connected,        \* socket ids whose connection is open
    teams,            \* teams: Map<teamId, Team>
    playerTeam,       \* playerTeam: Map<socketId, teamId>
    teamQueues,       \* teamQueues: Map<size, Team[]> (team ids, FIFO)
    activeGames,      \* activeGames: Map<gameId, GameState>
    playerToGame,     \* playerToGame: Map<socketId, gameId>
    countdownTimers,  \* keys of countdownTimers: Map<gameId, Timeout>
    intervals,        \* live setInterval countdown timers, per game id
    restartLocks,     \* restartLocks: Set<gameId>
    releaseTimers,    \* pending setTimeout(500) lock releases, per game id
    cleanupTimers,    \* game ids with a pending setTimeout(10000) cleanup
                      \* (game.handler.ts, the delayed-cleanup variant)
    gamesCreated,     \* game ids handed out so far
    out               \* messages emitted by the last handler run

registryVars == <<teams, playerTeam, teamQueues>>
gameVars == <<activeGames, playerToGame, countdownTimers, intervals,
              restartLocks, releaseTimers, cleanupTimers>>
vars == <<connected, teams, playerTeam, teamQueues, activeGames, playerToGame,
          countdownTimers, intervals, restartLocks, releaseTimers,
          cleanupTimers, gamesCreated, out>>

\* --------------------------------------------------------------- helpers
MapSet(f, k, v) == [x \in (DOMAIN f) \cup {k} |-> IF x = k THEN v ELSE f[x]]
\* a delete that removes nothing
MapDel_Keep(f, k) == f

MapDel(f, k) == [x \in (DOMAIN f) \ {k} |-> f[x]]
EmptyMap == [x \in {} |-> 0]
Range(s) == {s[i] : i \in DOMAIN s}
Min(a, b) == IF a < b THEN a ELSE b
Max(a, b) == IF a > b THEN a ELSE b

\* one emitted message: recipient socket, event name, the message text or
\* status it carries, and its yourTeamIsA annotation ("n/a" when it has none)
Msg(to, ev, msg) == [to |-> to, ev |-> ev, msg |-> msg, yourTeamIsA |-> "n/a"]
\* io.to(room).emit(ev, ...) for a room holding the sockets in `room`
Emit(room, ev, msg) == {Msg(p, ev, msg) : p \in room}
\* ev sent to every socket of idsA with yourTeamIsA: true and to every socket
\* of idsB with yourTeamIsA: false
EmitSides(idsA, idsB, ev, msg) ==
    {[to |-> p, ev |-> ev, msg |-> msg, yourTeamIsA |-> "true"] : p \in idsA}
    \cup {[to |-> p, ev |-> ev, msg |-> msg, yourTeamIsA |-> "false"] : p \in idsB}

\* ------------------------------------------------- team.handler.ts helpers
\* A team: participants in insertion order (the iteration order of the Set),
\* the leader's socket id and the queued flag.
NewTeam(p) == [participants |-> <<p>>, leaderId |-> p, inQueue |-> FALSE]

teamSize(team) == Len(team.participants)

\* list.findIndex(t => t.id === id): 0 when absent
FindIndex(list, id) ==
    IF id \in Range(list)
    THEN CHOOSE i \in DOMAIN list : list[i] = id /\ \A j \in 1..(i - 1) : list[j] # id
    ELSE 0

\* list.splice(i, 1)
RemoveAt(list, i) == SubSeq(list, 1, i - 1) \o SubSeq(list, i + 1, Len(list))

\* dequeueTeam that leaves an emptied bucket in the queue map
dequeueTeam_KeepEmptyBucket(ts, qs, id, room, reason) ==
    IF ~ts[id].inQueue
    THEN [teams |-> ts, queues |-> qs, out |-> {}]
    ELSE LET size == teamSize(ts[id])
             idx == IF size \in DOMAIN qs THEN FindIndex(qs[size], id) ELSE 0
             list == IF idx # 0 THEN RemoveAt(qs[size], idx) ELSE <<>>
             qs2 == IF idx = 0 THEN qs ELSE MapSet(qs, size, list)
         IN [teams |-> MapSet(ts, id, [ts[id] EXCEPT !.inQueue = FALSE]),
             queues |-> qs2,
             out |-> Emit(room, "team:match:cancelled", reason)]

\* dequeueTeam(io, team, reason) on registry (ts, qs); `room` is the set of
\* sockets in the team's socket.io room when the broadcast is sent.
dequeueTeam(ts, qs, id, room, reason) ==
    IF ~ts[id].inQueue
    THEN [teams |-> ts, queues |-> qs, out |-> {}]
    ELSE LET size == teamSize(ts[id])
             idx == IF size \in DOMAIN qs THEN FindIndex(qs[size], id) ELSE 0
             list == IF idx # 0 THEN RemoveAt(qs[size], idx) ELSE <<>>
             qs2 == IF idx = 0 THEN qs
                    ELSE IF Len(list) = 0 THEN MapDel(qs, size)
                    ELSE MapSet(qs, size, list)
         IN [teams |-> MapSet(ts, id, [ts[id] EXCEPT !.inQueue = FALSE]),
             queues |-> qs2,
             out |-> Emit(room, "team:match:cancelled", reason)]

\* attemptMatch that pops the two newest teams, newest first
attemptMatch_Lifo(ts, qs, size) ==
    IF size \notin DOMAIN qs \/ Len(qs[size]) < 2
    THEN [teams |-> ts, queues |-> qs, pair |-> <<>>]
    ELSE LET list == qs[size]
             teamA == list[Len(list)]
             teamB == list[Len(list) - 1]
             rest == SubSeq(list, 1, Len(list) - 2)
             ts2 == [t \in DOMAIN ts |->
                        IF t = teamA \/ t = teamB
                        THEN [ts[t] EXCEPT !.inQueue = FALSE] ELSE ts[t]]
         IN [teams |-> ts2,
             queues |-> IF Len(rest) = 0 THEN MapDel(qs, size)
                        ELSE MapSet(qs, size, rest),
             pair |-> <<teamA, teamB>>]

\* an enqueue that attempts no match
attemptMatch_NoMatch(ts, qs, size) == [teams |-> ts, queues |-> qs, pair |-> <<>>]

\* attemptMatch(io, size) up to the createGame call: the registry after the
\* two shifts, and the pair of team ids handed to createGame (<<>> if none).
attemptMatch(ts, qs, size) ==
    IF size \notin DOMAIN qs \/ Len(qs[size]) < 2
    THEN [teams |-> ts, queues |-> qs, pair |-> <<>>]
    ELSE LET list == qs[size]
             teamA == list[1]
             teamB == list[2]
             rest == SubSeq(list, 3, Len(list))
             ts2 == [t \in DOMAIN ts |->
                        IF t = teamA \/ t = teamB
                        THEN [ts[t] EXCEPT !.inQueue = FALSE] ELSE ts[t]]
         IN [teams |-> ts2,
             queues |-> IF Len(rest) = 0 THEN MapDel(qs, size)
                        ELSE MapSet(qs, size, rest),
             pair |-> <<teamA, teamB>>]

\* enqueueTeam without the list.find check: the team is always pushed
enqueueTeam_AlwaysPush(ts, qs, id) ==
    LET size == teamSize(ts[id])
        list == IF size \in DOMAIN qs THEN qs[size] ELSE <<>>
        ts2 == MapSet(ts, id, [ts[id] EXCEPT !.inQueue = TRUE])
        qs2 == MapSet(qs, size, Append(list, id))
        m == attemptMatch(ts2, qs2, size)
    IN [teams |-> m.teams, queues |-> m.queues, pair |-> m.pair,
        out |-> Emit(Range(ts[id].participants), "team:match:queued", "")]

\* enqueueTeam that keys every team into the bucket of size 1
enqueueTeam_OneBucket(ts, qs, id) ==
    LET size == 1
        list == IF size \in DOMAIN qs THEN qs[size] ELSE <<>>
        found == id \in Range(list)
        ts2 == IF found THEN ts
               ELSE MapSet(ts, id, [ts[id] EXCEPT !.inQueue = TRUE])
        qs2 == MapSet(qs, size, IF found THEN list ELSE Append(list, id))
        m == attemptMatch(ts2, qs2, size)
    IN [teams |-> m.teams, queues |-> m.queues, pair |-> m.pair,
        out |-> IF found THEN {}
                ELSE Emit(Range(ts[id].participants), "team:match:queued", "")]

\* enqueueTeam(io, team)
enqueueTeam(ts, qs, id) ==
    LET size == teamSize(ts[id])
        list == IF size \in DOMAIN qs THEN qs[size] ELSE <<>>
        found == id \in Range(list)
        ts2 == IF found THEN ts
               ELSE MapSet(ts, id, [ts[id] EXCEPT !.inQueue = TRUE])
        qs2 == MapSet(qs, size, IF found THEN list ELSE Append(list, id))
        m == attemptMatch(ts2, qs2, size)
    IN [teams |-> m.teams, queues |-> m.queues, pair |-> m.pair,
        out |-> IF found THEN {}
                ELSE Emit(Range(ts[id].participants), "team:match:queued", "")]

\* ------------------------------------------- game handler (part_005) helpers
\* The game-side state as one record, so that helpers can be chained the way
\* the handlers call them.
World == [games |-> activeGames, p2g |-> playerToGame,
          timers |-> countdownTimers, ivl |-> intervals,
          locks |-> restartLocks, rel |-> releaseTimers, out |-> {}]

SetWorld(W) ==
    /\ activeGames' = W.games
    /\ playerToGame' = W.p2g
    /\ countdownTimers' = W.timers
    /\ intervals' = W.ivl
    /\ restartLocks' = W.locks
    /\ releaseTimers' = W.rel
    /\ UNCHANGED cleanupTimers

\* a GameTeam snapshot of a team's participants, clicks zeroed
NewSide(participants) ==
    [players |-> [i \in DOMAIN participants |->
                     [id |-> participants[i], clicks |-> 0]],
     totalClicks |-> 0]

PlayerIds(side) == {side.players[i].id : i \in DOMAIN side.players}

\* a filter that also takes the departed player's clicks off the total
FilterOut_Subtract(side, id) ==
    [side EXCEPT !.players = SelectSeq(@, LAMBDA pl : pl.id # id),
                 !.totalClicks = IF \E i \in DOMAIN side.players : side.players[i].id = id
                                 THEN @ - side.players[CHOOSE i \in DOMAIN side.players :
                                                          side.players[i].id = id].clicks
                                 ELSE @]

\* players.filter(p => p.id !== id)
FilterOut(side, id) ==
    [side EXCEPT !.players = SelectSeq(@, LAMBDA pl : pl.id # id)]

\* calculateBarPosition with the two totals swapped in the difference
calculateBarPosition_Swapped(teamAClicks, teamBClicks) ==
    Max(-WIN_THRESHOLD, Min(WIN_THRESHOLD, (teamAClicks - teamBClicks) * CLICK_POWER))

calculateBarPosition(teamAClicks, teamBClicks) ==
    LET difference == teamBClicks - teamAClicks
        position == difference * CLICK_POWER
    IN Max(-WIN_THRESHOLD, Min(WIN_THRESHOLD, position))

\* checkGameEnd with < and > for <= and >=
checkGameEnd_Strict(game) ==
    IF game.barPosition < -WIN_THRESHOLD
    THEN [game |-> [game EXCEPT !.status = "finished", !.winner = "teamA"],
          ended |-> TRUE]
    ELSE IF game.barPosition > WIN_THRESHOLD
    THEN [game |-> [game EXCEPT !.status = "finished", !.winner = "teamB"],
          ended |-> TRUE]
    ELSE [game |-> game, ended |-> FALSE]

\* checkGameEnd(game): the game after the call and the returned boolean
checkGameEnd(game) ==
    IF game.barPosition <= -WIN_THRESHOLD
    THEN [game |-> [game EXCEPT !.status = "finished", !.winner = "teamA"],
          ended |-> TRUE]
    ELSE IF game.barPosition >= WIN_THRESHOLD
    THEN [game |-> [game EXCEPT !.status = "finished", !.winner = "teamB"],
          ended |-> TRUE]
    ELSE [game |-> game, ended |-> FALSE]

\* the empty-side evaluation without its countdown guard
EvaluateEmpties_InCountdown(game) ==
    IF Len(game.teamA.players) = 0 /\ Len(game.teamB.players) > 0
    THEN [game EXCEPT !.status = "finished", !.winner = "teamB"]
    ELSE IF Len(game.teamB.players) = 0 /\ Len(game.teamA.players) > 0
    THEN [game EXCEPT !.status = "finished", !.winner = "teamA"]
    ELSE game

\* the empty-side evaluation of broadcastGameUpdate (lines 94-109)
EvaluateEmpties(game) ==
    IF game.status # "countdown"
    THEN IF Len(game.teamA.players) = 0 /\ Len(game.teamB.players) > 0
         THEN [game EXCEPT !.status = "finished", !.winner = "teamB"]
         ELSE IF Len(game.teamB.players) = 0 /\ Len(game.teamA.players) > 0
         THEN [game EXCEPT !.status = "finished", !.winner = "teamA"]
         ELSE game
    ELSE game

\* broadcastGameUpdate without the pruning
PruneVotes_None(game) == game

\* the stale-vote pruning of broadcastGameUpdate (lines 74-79)
PruneVotes(game) ==
    [game EXCEPT
        !.restartVotesA = {id \in @ : id \in PlayerIds(game.teamA)},
        !.restartVotesB = {id \in @ : id \in PlayerIds(game.teamB)}]

\* broadcastGameUpdate(io, game): the game after the call and the game:update
\* messages, one per remaining player, carrying the status that is sent
broadcastGameUpdate(game) ==
    LET g == EvaluateEmpties(PruneVotes(game))
    IN [game |-> g,
        out |-> EmitSides(PlayerIds(g.teamA), PlayerIds(g.teamB),
                          "game:update", g.status)]

\* startCountdown that arms the interval without countdownTimers.set
startCountdown_Unregistered(W, gid) ==
    LET b == broadcastGameUpdate(
                 [W.games[gid] EXCEPT !.status = "countdown",
                                      !.countdownRemaining = COUNTDOWN_SECONDS])
    IN [W EXCEPT !.games = MapSet(@, gid, b.game),
                 !.out = @ \cup b.out,
                 !.ivl[gid] = @ + 1]

\* startCountdown without the setInterval
startCountdown_NoTimer(W, gid) ==
    LET b == broadcastGameUpdate(
                 [W.games[gid] EXCEPT !.status = "countdown",
                                      !.countdownRemaining = COUNTDOWN_SECONDS])
    IN [W EXCEPT !.games = MapSet(@, gid, b.game),
                 !.out = @ \cup b.out]

\* startCountdown(io, game), game being activeGames[gid]
startCountdown(W, gid) ==
    LET b == broadcastGameUpdate(
                 [W.games[gid] EXCEPT !.status = "countdown",
                                      !.countdownRemaining = COUNTDOWN_SECONDS])
    IN [W EXCEPT !.games = MapSet(@, gid, b.game),
                 !.out = @ \cup b.out,
                 !.ivl[gid] = @ + 1,
                 !.timers = @ \cup {gid}]

\* resetRound that forgets the two totalClicks
resetRound_KeepTotals(game) ==
    LET ZeroClicks(side) ==
            [side EXCEPT !.players = [i \in DOMAIN side.players |->
                                         [side.players[i] EXCEPT !.clicks = 0]]]
    IN [game EXCEPT !.teamA = ZeroClicks(@),
                    !.teamB = ZeroClicks(@),
                    !.barPosition = 0,
                    !.winner = "none",
                    !.status = "countdown",
                    !.countdownRemaining = COUNTDOWN_SECONDS,
                    !.restartVotesA = {},
                    !.restartVotesB = {}]

\* resetRound that keeps the winner of the finished round
resetRound_KeepWinner(game) ==
    LET ZeroClicks(side) ==
            [players |-> [i \in DOMAIN side.players |->
                             [side.players[i] EXCEPT !.clicks = 0]],
             totalClicks |-> 0]
    IN [game EXCEPT !.teamA = ZeroClicks(@),
                    !.teamB = ZeroClicks(@),
                    !.barPosition = 0,
                    !.status = "countdown",
                    !.countdownRemaining = COUNTDOWN_SECONDS,
                    !.restartVotesA = {},
                    !.restartVotesB = {}]

\* the per-round reset of restartGame (lines 158-170)
resetRound(game) ==
    LET ZeroClicks(side) ==
            [players |-> [i \in DOMAIN side.players |->
                             [side.players[i] EXCEPT !.clicks = 0]],
             totalClicks |-> 0]
    IN [game EXCEPT !.teamA = ZeroClicks(@),
                    !.teamB = ZeroClicks(@),
                    !.barPosition = 0,
                    !.winner = "none",
                    !.status = "countdown",
                    !.countdownRemaining = COUNTDOWN_SECONDS,
                    !.restartVotesA = {},
                    !.restartVotesB = {}]

\* restartGame that neither takes the restart guard nor arms its release
restartGame_NoLock(W, gid) ==
    LET game == W.games[gid]
    IN IF game.status # "finished" THEN W
       ELSE IF Len(game.teamA.players) = 0 \/ Len(game.teamB.players) = 0 THEN W
       ELSE startCountdown(
                [W EXCEPT !.games = MapSet(@, gid, resetRound(game))],
                gid)

\* restartGame(io, game), game being activeGames[gid]
restartGame(W, gid) ==
    LET game == W.games[gid]
    IN IF game.status # "finished" THEN W
       ELSE IF Len(game.teamA.players) = 0 \/ Len(game.teamB.players) = 0 THEN W
       ELSE IF gid \in W.locks THEN W
       ELSE startCountdown(
                [W EXCEPT !.locks = @ \cup {gid},
                          !.rel[gid] = @ + 1,
                          !.games = MapSet(@, gid, resetRound(game))],
                gid)

\* createGame that indexes only the players of teamA
createGame_IndexA(W, gid, participantsA, participantsB) ==
    LET game == [teamA |-> NewSide(participantsA),
                 teamB |-> NewSide(participantsB),
                 status |-> "countdown",
                 winner |-> "none",
                 barPosition |-> 0,
                 countdownRemaining |-> COUNTDOWN_SECONDS,
                 restartVotesA |-> {},
                 restartVotesB |-> {}]
        indexed == Range(participantsA)
    IN startCountdown(
           [W EXCEPT !.games = MapSet(@, gid, game),
                     !.p2g = [p \in (DOMAIN @) \cup indexed |->
                                 IF p \in indexed THEN gid ELSE @[p]]],
           gid)

\* createGame(io, gameId, teamA, teamB) on the participants of the two teams
createGame(W, gid, participantsA, participantsB) ==
    LET game == [teamA |-> NewSide(participantsA),
                 teamB |-> NewSide(participantsB),
                 status |-> "countdown",
                 winner |-> "none",
                 barPosition |-> 0,
                 countdownRemaining |-> COUNTDOWN_SECONDS,
                 restartVotesA |-> {},
                 restartVotesB |-> {}]
        indexed == Range(participantsA) \cup Range(participantsB)
    IN startCountdown(
           [W EXCEPT !.games = MapSet(@, gid, game),
                     !.p2g = [p \in (DOMAIN @) \cup indexed |->
                                 IF p \in indexed THEN gid ELSE @[p]]],
           gid)

\* ------------------------------------------------ team.handler.ts handlers
\* socket.on("team:create")
TeamCreate(p) ==
    /\ out = {}
    /\ p \in connected
    /\ IF p \in DOMAIN playerTeam
       THEN /\ out' = {Msg(p, "team:error", "Already in a team")}
            /\ UNCHANGED registryVars
       ELSE \E id \in TeamIds \ DOMAIN teams :
            /\ teams' = MapSet(teams, id, NewTeam(p))
            /\ playerTeam' = MapSet(playerTeam, p, id)
            /\ UNCHANGED teamQueues
            /\ out' = {Msg(p, "team:created", "")}
    /\ UNCHANGED <<connected, gameVars, gamesCreated>>

\* joinTeam without the dequeue of a queued team
joinTeam_NoDequeue(p, code) ==
    [teams |-> MapSet(teams, code,
                  [teams[code] EXCEPT !.participants = Append(@, p)]),
     queues |-> teamQueues,
     playerTeam |-> MapSet(playerTeam, p, code),
     out |-> Emit(Range(teams[code].participants) \ {p}, "team:playerJoined", "")
             \cup {Msg(p, "team:joined", "")}]

\* joinTeam without the playerTeam.set
joinTeam_NoIndex(p, code) ==
    LET team == teams[code]
        d == IF team.inQueue
             THEN dequeueTeam(teams, teamQueues, code,
                              Range(team.participants), "Player joined")
             ELSE [teams |-> teams, queues |-> teamQueues, out |-> {}]
    IN [teams |-> MapSet(d.teams, code,
                     [d.teams[code] EXCEPT !.participants = Append(@, p)]),
        queues |-> d.queues,
        playerTeam |-> playerTeam,
        out |-> d.out
                \cup Emit(Range(team.participants) \ {p}, "team:playerJoined", "")
                \cup {Msg(p, "team:joined", "")}]

\* the successful branch of team:join (lines 169-177)
joinTeam(p, code) ==
    LET team == teams[code]
        d == IF team.inQueue
             THEN dequeueTeam(teams, teamQueues, code,
                              Range(team.participants), "Player joined")
             ELSE [teams |-> teams, queues |-> teamQueues, out |-> {}]
    IN [teams |-> MapSet(d.teams, code,
                     [d.teams[code] EXCEPT !.participants = Append(@, p)]),
        queues |-> d.queues,
        playerTeam |-> MapSet(playerTeam, p, code),
        out |-> d.out
                \cup Emit(Range(team.participants) \ {p}, "team:playerJoined", "")
                \cup {Msg(p, "team:joined", "")}]

\* joinError without the playerTeam.has check
joinError_NoIndexCheck(p, code) ==
    IF code \notin DOMAIN teams THEN "Team not found"
    ELSE IF teamSize(teams[code]) >= MAX_TEAM_SIZE THEN "Team full"
    ELSE ""

\* joinError with > for >= in the size check
joinError_OffByOne(p, code) ==
    IF p \in DOMAIN playerTeam THEN "Already in a team"
    ELSE IF code \notin DOMAIN teams THEN "Team not found"
    ELSE IF teamSize(teams[code]) > MAX_TEAM_SIZE THEN "Team full"
    ELSE ""

\* the checks of team:join (lines 156-168): the message of the team:error
\* that answers the request, "" when the join goes ahead
joinError(p, code) ==
    IF p \in DOMAIN playerTeam THEN "Already in a team"
    ELSE IF code \notin DOMAIN teams THEN "Team not found"
    ELSE IF teamSize(teams[code]) >= MAX_TEAM_SIZE THEN "Team full"
    ELSE ""

\* socket.on("team:join") with data.inviteCode = code
TeamJoin(p, code) ==
    /\ out = {}
    /\ p \in connected
    /\ IF joinError(p, code) # ""
       THEN /\ out' = {Msg(p, "team:error", joinError(p, code))}
            /\ UNCHANGED registryVars
       ELSE LET r == joinTeam(p, code)
            IN /\ teams' = r.teams
               /\ teamQueues' = r.queues
               /\ playerTeam' = r.playerTeam
               /\ out' = r.out
    /\ UNCHANGED <<connected, gameVars, gamesCreated>>

\* newLeader without the succession: the departed leader stays leader
newLeader_Stale(leaderId, p, rest) == leaderId

\* the leader after socket p has been removed, `rest` being the remaining
\* participants (lines 197-201 and 289-293)
newLeader(leaderId, p, rest) ==
    IF leaderId = p /\ Len(rest) > 0 THEN rest[1] ELSE leaderId

\* What team:leave (lines 180-208) and the team handler's disconnect (lines
\* 275-300) share: unindex, dequeue, remove the participant, promote the
\* first remaining participant if the leader left, drop an empty team.
\* The team's socket.io room still holds the leaving socket while team:leave
\* runs (socket.leave comes last) and no longer holds it in disconnect;
\* team:playerLeft is sent only if the participant was found in team:leave,
\* and always in disconnect.
removeFromTeam(p, isDisconnect, reason) ==
    LET teamId == playerTeam[p]
        Room(ids) == IF isDisconnect THEN ids \ {p} ELSE ids \cup {p}
    IN IF teamId \notin DOMAIN teams
       THEN [teams |-> teams, queues |-> teamQueues,
             playerTeam |-> MapDel(playerTeam, p), out |-> {}, found |-> FALSE]
       ELSE LET team == teams[teamId]
                d == IF team.inQueue
                     THEN dequeueTeam(teams, teamQueues, teamId,
                                      Room(Range(team.participants)), reason)
                     ELSE [teams |-> teams, queues |-> teamQueues, out |-> {}]
                idx == FindIndex(team.participants, p)
                rest == IF idx # 0 THEN RemoveAt(team.participants, idx)
                        ELSE team.participants
                promote == team.leaderId = p /\ Len(rest) > 0
                after == [d.teams[teamId] EXCEPT
                             !.participants = rest,
                             !.leaderId = newLeader(@, p, rest)]
            IN [teams |-> IF Len(rest) = 0 THEN MapDel(d.teams, teamId)
                          ELSE MapSet(d.teams, teamId, after),
                queues |-> d.queues,
                playerTeam |-> MapDel(playerTeam, p),
                out |-> d.out
                        \cup (IF promote
                              THEN Emit(Room(Range(rest)), "team:leaderChanged", "")
                              ELSE {})
                        \cup (IF idx # 0 \/ isDisconnect
                              THEN Emit(Range(rest) \ {p}, "team:playerLeft", "")
                              ELSE {}),
                found |-> TRUE]

\* socket.on("team:leave")
TeamLeave(p) ==
    /\ out = {}
    /\ p \in connected
    /\ IF p \notin DOMAIN playerTeam
       THEN /\ out' = {}
            /\ UNCHANGED registryVars
       ELSE LET r == removeFromTeam(p, FALSE, "Player left")
            IN /\ teams' = r.teams
               /\ teamQueues' = r.queues
               /\ playerTeam' = r.playerTeam
               /\ out' = r.out \cup (IF r.found THEN {Msg(p, "team:left", "")}
                                     ELSE {})
    /\ UNCHANGED <<connected, gameVars, gamesCreated>>

\* team:match:cancel without the leader check
TeamMatchCancel_AnyMember(p) ==
    /\ out = {}
    /\ p \in connected
    /\ IF p \notin DOMAIN playerTeam
       THEN /\ out' = {}
            /\ UNCHANGED registryVars
       ELSE IF playerTeam[p] \notin DOMAIN teams
       THEN /\ out' = {}
            /\ UNCHANGED registryVars
       ELSE IF ~teams[playerTeam[p]].inQueue
       THEN /\ out' = {Msg(p, "team:match:error", "Not queued")}
            /\ UNCHANGED registryVars
       ELSE LET teamId == playerTeam[p]
                d == dequeueTeam(teams, teamQueues, teamId,
                                 Range(teams[teamId].participants),
                                 "Leader cancelled")
            IN /\ teams' = d.teams
               /\ teamQueues' = d.queues
               /\ out' = d.out
               /\ UNCHANGED playerTeam
    /\ UNCHANGED <<connected, gameVars, gamesCreated>>

\* socket.on("team:match:cancel")
TeamMatchCancel(p) ==
    /\ out = {}
    /\ p \in connected
    /\ IF p \notin DOMAIN playerTeam
       THEN /\ out' = {}
            /\ UNCHANGED registryVars
       ELSE IF playerTeam[p] \notin DOMAIN teams
       THEN /\ out' = {}
            /\ UNCHANGED registryVars
       ELSE IF teams[playerTeam[p]].leaderId # p
       THEN /\ out' = {Msg(p, "team:match:error", "Only leader can cancel")}
            /\ UNCHANGED registryVars
       ELSE IF ~teams[playerTeam[p]].inQueue
       THEN /\ out' = {Msg(p, "team:match:error", "Not queued")}
            /\ UNCHANGED registryVars
       ELSE LET teamId == playerTeam[p]
                d == dequeueTeam(teams, teamQueues, teamId,
                                 Range(teams[teamId].participants),
                                 "Leader cancelled")
            IN /\ teams' = d.teams
               /\ teamQueues' = d.queues
               /\ out' = d.out
               /\ UNCHANGED playerTeam
    /\ UNCHANGED <<connected, gameVars, gamesCreated>>

\* team:match:start without the leader check
TeamMatchStart_AnyMember(p) ==
    /\ out = {}
    /\ p \in connected
    /\ IF p \notin DOMAIN playerTeam
       THEN /\ out' = {Msg(p, "team:match:error", "Not in a team")}
            /\ UNCHANGED <<registryVars, gameVars, gamesCreated>>
       ELSE IF playerTeam[p] \notin DOMAIN teams
       THEN /\ out' = {Msg(p, "team:match:error", "Team missing")}
            /\ UNCHANGED <<registryVars, gameVars, gamesCreated>>
       ELSE IF teams[playerTeam[p]].inQueue
       THEN /\ out' = {Msg(p, "team:match:error", "Already queued")}
            /\ UNCHANGED <<registryVars, gameVars, gamesCreated>>
       ELSE IF teamSize(teams[playerTeam[p]]) > MAX_TEAM_SIZE
       THEN /\ out' = {Msg(p, "team:match:error", "Team too large")}
            /\ UNCHANGED <<registryVars, gameVars, gamesCreated>>
       ELSE LET e == enqueueTeam(teams, teamQueues, playerTeam[p])
            IN /\ teams' = e.teams
               /\ teamQueues' = e.queues
               /\ UNCHANGED playerTeam
               /\ IF e.pair = <<>>
                  THEN /\ out' = e.out
                       /\ UNCHANGED <<gameVars, gamesCreated>>
                  ELSE LET partsA == teams[e.pair[1]].participants
                           partsB == teams[e.pair[2]].participants
                           gid == gamesCreated + 1
                           W == createGame(World, gid, partsA, partsB)
                       IN /\ gamesCreated < MaxGames
                          /\ gamesCreated' = gid
                          /\ SetWorld(W)
                          /\ out' = e.out \cup W.out
                                    \cup EmitSides(Range(partsA), Range(partsB),
                                                   "game:started", "active")
    /\ UNCHANGED connected

\* socket.on("team:match:start"): enqueueTeam, and through attemptMatch the
\* createGame call and the game:started messages (lines 91-129) when the
\* bucket now holds two teams
TeamMatchStart(p) ==
    /\ out = {}
    /\ p \in connected
    /\ IF p \notin DOMAIN playerTeam
       THEN /\ out' = {Msg(p, "team:match:error", "Not in a team")}
            /\ UNCHANGED <<registryVars, gameVars, gamesCreated>>
       ELSE IF playerTeam[p] \notin DOMAIN teams
       THEN /\ out' = {Msg(p, "team:match:error", "Team missing")}
            /\ UNCHANGED <<registryVars, gameVars, gamesCreated>>
       ELSE IF teams[playerTeam[p]].leaderId # p
       THEN /\ out' = {Msg(p, "team:match:error", "Only leader can start")}
            /\ UNCHANGED <<registryVars, gameVars, gamesCreated>>
       ELSE IF teams[playerTeam[p]].inQueue
       THEN /\ out' = {Msg(p, "team:match:error", "Already queued")}
            /\ UNCHANGED <<registryVars, gameVars, gamesCreated>>
       ELSE IF teamSize(teams[playerTeam[p]]) > MAX_TEAM_SIZE
       THEN /\ out' = {Msg(p, "team:match:error", "Team too large")}
            /\ UNCHANGED <<registryVars, gameVars, gamesCreated>>
       ELSE LET e == enqueueTeam(teams, teamQueues, playerTeam[p])
            IN /\ teams' = e.teams
               /\ teamQueues' = e.queues
               /\ UNCHANGED playerTeam
               /\ IF e.pair = <<>>
                  THEN /\ out' = e.out
                       /\ UNCHANGED <<gameVars, gamesCreated>>
                  ELSE LET partsA == teams[e.pair[1]].participants
                           partsB == teams[e.pair[2]].participants
                           gid == gamesCreated + 1
                           W == createGame(World, gid, partsA, partsB)
                       IN /\ gamesCreated < MaxGames
                          /\ gamesCreated' = gid
                          /\ SetWorld(W)
                          /\ out' = e.out \cup W.out
                                    \cup EmitSides(Range(partsA), Range(partsB),
                                                   "game:started", "active")
    /\ UNCHANGED connected

\* ------------------------------------------- game handler (part_005) handlers
\* the index of the player with this id in a side's players (0 if absent)
PlayerIndex(side, id) ==
    IF id \in PlayerIds(side)
    THEN CHOOSE i \in DOMAIN side.players :
             side.players[i].id = id /\ \A j \in 1..(i - 1) : side.players[j].id # id
    ELSE 0

\* a click that counts twice in the side total
AddClick_TwiceTotal(side, id) ==
    [side EXCEPT !.players[PlayerIndex(side, id)].clicks = @ + CLICK_POWER,
                 !.totalClicks = @ + 2 * CLICK_POWER]

\* player.clicks += CLICK_POWER; playerTeam.totalClicks += CLICK_POWER
AddClick(side, id) ==
    [side EXCEPT !.players[PlayerIndex(side, id)].clicks = @ + CLICK_POWER,
                 !.totalClicks = @ + CLICK_POWER]

\* a session removal that leaves the countdown interval armed
ClearCountdown_Keep(W, gid) == W

\* clearInterval(countdownTimers.get(gid)); countdownTimers.delete(gid),
\* done only if countdownTimers.has(gid)
ClearCountdown(W, gid) ==
    IF gid \in W.timers
    THEN [W EXCEPT !.ivl[gid] = @ - 1, !.timers = @ \ {gid}]
    ELSE W

\* allVoted with || for &&
allVoted_Either(game) ==
    \/ Cardinality(game.restartVotesA) = Len(game.teamA.players)
    \/ Cardinality(game.restartVotesB) = Len(game.teamB.players)

\* allATeamVoted && allBTeamVoted (lines 243-248)
allVoted(game) ==
    LET allATeamVoted == Cardinality(game.restartVotesA) = Len(game.teamA.players)
        allBTeamVoted == Cardinality(game.restartVotesB) = Len(game.teamB.players)
    IN allATeamVoted /\ allBTeamVoted

\* restartError without the empty-side check
restartError_NoEmptyCheck(p) ==
    IF p \notin DOMAIN playerToGame THEN "Not in a game"
    ELSE IF playerToGame[p] \notin DOMAIN activeGames THEN "Game not found"
    ELSE IF activeGames[playerToGame[p]].status # "finished"
    THEN "Game not finished yet"
    ELSE ""

\* the checks of game:restart (lines 216-233): the message of the game:error
\* that answers the request, "" when the vote goes ahead
restartError(p) ==
    IF p \notin DOMAIN playerToGame THEN "Not in a game"
    ELSE IF playerToGame[p] \notin DOMAIN activeGames THEN "Game not found"
    ELSE IF activeGames[playerToGame[p]].status # "finished"
    THEN "Game not finished yet"
    ELSE IF \/ Len(activeGames[playerToGame[p]].teamA.players) = 0
            \/ Len(activeGames[playerToGame[p]].teamB.players) = 0
    THEN "Cannot restart: a team is empty"
    ELSE ""

\* socket.on('game:restart') once the four checks have passed (lines 235-250)
voteRestart(W, gid, p) ==
    LET game == W.games[gid]
        voted == IF p \in PlayerIds(game.teamA)
                 THEN [game EXCEPT !.restartVotesA = @ \cup {p}]
                 ELSE [game EXCEPT !.restartVotesB = @ \cup {p}]
        b == broadcastGameUpdate(voted)
        W2 == [W EXCEPT !.games = MapSet(@, gid, b.game), !.out = @ \cup b.out]
    IN IF allVoted(voted) THEN restartGame(W2, gid) ELSE W2

\* socket.on('game:restart')
GameRestart(p) ==
    /\ out = {}
    /\ p \in connected
    /\ IF restartError(p) # ""
       THEN /\ out' = {Msg(p, "game:error", restartError(p))}
            /\ UNCHANGED gameVars
       ELSE LET W == voteRestart(World, playerToGame[p], p)
            IN /\ SetWorld(W)
               /\ out' = W.out
    /\ UNCHANGED <<connected, registryVars, gamesCreated>>

\* socket.on('game:click') once the status checks have passed and the player
\* was found in a side (lines 289-310)
applyClick(W, gid, p) ==
    LET game == W.games[gid]
        clicked == IF p \in PlayerIds(game.teamA)
                   THEN [game EXCEPT !.teamA = AddClick(@, p)]
                   ELSE [game EXCEPT !.teamB = AddClick(@, p)]
        moved == [clicked EXCEPT !.barPosition =
                     calculateBarPosition(clicked.teamA.totalClicks,
                                          clicked.teamB.totalClicks)]
        e == checkGameEnd(moved)
        b == broadcastGameUpdate(e.game)
        W2 == [W EXCEPT !.games = MapSet(@, gid, b.game), !.out = @ \cup b.out]
        W3 == IF e.ended THEN ClearCountdown(W2, gid) ELSE W2
    IN IF /\ e.ended
          /\ Len(b.game.teamA.players) = 0
          /\ Len(b.game.teamB.players) = 0
       THEN [W3 EXCEPT !.games = MapDel(@, gid)]
       ELSE W3

\* The environment's bound on clicking: a click that would be applied is sent
\* only if afterwards all clicks of the round but those of its top clicker
\* number at most MaxMinor.
ClickSent(p) ==
    (/\ p \in DOMAIN playerToGame
     /\ playerToGame[p] \in DOMAIN activeGames
     /\ activeGames[playerToGame[p]].status = "active")
    => LET game == activeGames[playerToGame[p]]
           all == game.teamA.players \o game.teamB.players
           After(i) == all[i].clicks + (IF all[i].id = p THEN 1 ELSE 0)
           total == game.teamA.totalClicks + game.teamB.totalClicks + 1
       IN \E i \in DOMAIN all : total - After(i) <= MaxMinor

\* clickError without the countdown check
clickError_NoCountdown(p) ==
    IF p \notin DOMAIN playerToGame THEN "Not in a game"
    ELSE IF playerToGame[p] \notin DOMAIN activeGames THEN "Game not found"
    ELSE IF activeGames[playerToGame[p]].status = "finished"
    THEN "Game is not active"
    ELSE IF /\ p \notin PlayerIds(activeGames[playerToGame[p]].teamA)
            /\ p \notin PlayerIds(activeGames[playerToGame[p]].teamB)
    THEN "Player not found in game"
    ELSE ""

\* the checks of game:click (lines 254-287): the message of the game:error
\* that answers the request, "" when the click is applied
clickError(p) ==
    IF p \notin DOMAIN playerToGame THEN "Not in a game"
    ELSE IF playerToGame[p] \notin DOMAIN activeGames THEN "Game not found"
    ELSE IF activeGames[playerToGame[p]].status = "countdown"
    THEN "Game has not started yet"
    ELSE IF activeGames[playerToGame[p]].status # "active"
    THEN "Game is not active"
    ELSE IF /\ p \notin PlayerIds(activeGames[playerToGame[p]].teamA)
            /\ p \notin PlayerIds(activeGames[playerToGame[p]].teamB)
    THEN "Player not found in game"
    ELSE ""

\* socket.on('game:click')
GameClick(p) ==
    /\ out = {}
    /\ p \in connected
    /\ ClickSent(p)
    /\ IF clickError(p) # ""
       THEN /\ out' = {Msg(p, "game:error", clickError(p))}
            /\ UNCHANGED gameVars
       ELSE LET W == applyClick(World, playerToGame[p], p)
            IN /\ SetWorld(W)
               /\ out' = W.out
    /\ UNCHANGED <<connected, registryVars, gamesCreated>>

\* What game:leave (lines 313-333) and the game handler's disconnect (lines
\* 361-380) share, for a socket indexed to an existing game
leaveGame(W, p) ==
    LET gid == W.p2g[p]
        game == [W.games[gid] EXCEPT !.teamA = FilterOut(@, p),
                                     !.teamB = FilterOut(@, p)]
        W1 == [W EXCEPT !.p2g = MapDel(@, p)]
    IN IF Len(game.teamA.players) = 0 /\ Len(game.teamB.players) = 0
       THEN [ClearCountdown(W1, gid) EXCEPT !.games = MapDel(@, gid)]
       ELSE LET b == broadcastGameUpdate(game)
            IN [W1 EXCEPT !.games = MapSet(@, gid, b.game), !.out = @ \cup b.out]

\* socket.on('game:leave')
GameLeave(p) ==
    /\ out = {}
    /\ p \in connected
    /\ IF p \notin DOMAIN playerToGame \/ playerToGame[p] \notin DOMAIN activeGames
       THEN /\ out' = {}
            /\ UNCHANGED gameVars
       ELSE LET W == leaveGame(World, p)
            IN /\ SetWorld(W)
               /\ out' = W.out \cup {Msg(p, "game:left", "")}
    /\ UNCHANGED <<connected, registryVars, gamesCreated>>

\* The transport's disconnect signal: the socket's 'disconnect' listeners run
\* one after the other, the team handler's (lines 275-300) and the game
\* handler's (part_005 lines 361-380); they share no state.
Disconnect(p) ==
    /\ out = {}
    /\ p \in connected
    /\ connected' = connected \ {p}
    /\ LET r == IF p \in DOMAIN playerTeam
                THEN removeFromTeam(p, TRUE, "Disconnect")
                ELSE [teams |-> teams, queues |-> teamQueues,
                      playerTeam |-> playerTeam, out |-> {}, found |-> FALSE]
           W == IF p \in DOMAIN playerToGame /\ playerToGame[p] \in DOMAIN activeGames
                THEN leaveGame(World, p)
                ELSE World
       IN /\ teams' = r.teams
          /\ teamQueues' = r.queues
          /\ playerTeam' = r.playerTeam
          /\ SetWorld(W)
          /\ out' = r.out \cup W.out
    /\ UNCHANGED gamesCreated

\* ------------------------ game.handler.ts: the delayed-cleanup variant
\* This game handler has no countdown and no restart: a session is created
\* active, and a winning click arms a 10 s timer that removes the session.
\* It is the createGame whose signature attemptMatch calls (line 92).

\* the empty-side evaluation of its broadcastGameUpdate (lines 86-99)
EvaluateEmptiesGH(game) ==
    IF Len(game.teamA.players) = 0 /\ Len(game.teamB.players) > 0
    THEN [game EXCEPT !.status = "finished", !.winner = "teamB"]
    ELSE IF Len(game.teamB.players) = 0 /\ Len(game.teamA.players) > 0
    THEN [game EXCEPT !.status = "finished", !.winner = "teamA"]
    ELSE game

\* broadcastGameUpdate(io, game): the game after the call and the game:update
\* messages, carrying the status that is sent
broadcastGameUpdateGH(game) ==
    LET g == EvaluateEmptiesGH(game)
    IN [game |-> g,
        out |-> EmitSides(PlayerIds(g.teamA), PlayerIds(g.teamB),
                          "game:update", g.status)]

\* createGame(gameId, teamA, teamB): activeGames and playerToGame after it
createGameGH(games, p2g, gid, participantsA, participantsB) ==
    LET game == [teamA |-> NewSide(participantsA),
                 teamB |-> NewSide(participantsB),
                 status |-> "active",
                 winner |-> "none",
                 barPosition |-> 0]
        indexed == Range(participantsA) \cup Range(participantsB)
    IN [games |-> MapSet(games, gid, game),
        p2g |-> [p \in (DOMAIN p2g) \cup indexed |->
                    IF p \in indexed THEN gid ELSE p2g[p]]]

\* socket.on("team:match:start") of team.handler.ts with this createGame
TeamMatchStartGH(p) ==
    /\ out = {}
    /\ p \in connected
    /\ IF p \notin DOMAIN playerTeam
       THEN /\ out' = {Msg(p, "team:match:error", "Not in a team")}
            /\ UNCHANGED <<registryVars, gameVars, gamesCreated>>
       ELSE IF playerTeam[p] \notin DOMAIN teams
       THEN /\ out' = {Msg(p, "team:match:error", "Team missing")}
            /\ UNCHANGED <<registryVars, gameVars, gamesCreated>>
       ELSE IF teams[playerTeam[p]].leaderId # p
       THEN /\ out' = {Msg(p, "team:match:error", "Only leader can start")}
            /\ UNCHANGED <<registryVars, gameVars, gamesCreated>>
       ELSE IF teams[playerTeam[p]].inQueue
       THEN /\ out' = {Msg(p, "team:match:error", "Already queued")}
            /\ UNCHANGED <<registryVars, gameVars, gamesCreated>>
       ELSE IF teamSize(teams[playerTeam[p]]) > MAX_TEAM_SIZE
       THEN /\ out' = {Msg(p, "team:match:error", "Team too large")}
            /\ UNCHANGED <<registryVars, gameVars, gamesCreated>>
       ELSE LET e == enqueueTeam(teams, teamQueues, playerTeam[p])
            IN /\ teams' = e.teams
               /\ teamQueues' = e.queues
               /\ UNCHANGED playerTeam
               /\ IF e.pair = <<>>
                  THEN /\ out' = e.out
                       /\ UNCHANGED <<gameVars, gamesCreated>>
                  ELSE LET partsA == teams[e.pair[1]].participants
                           partsB == teams[e.pair[2]].participants
                           gid == gamesCreated + 1
                           c == createGameGH(activeGames, playerToGame, gid,
                                             partsA, partsB)
                       IN /\ gamesCreated < MaxGames
                          /\ gamesCreated' = gid
                          /\ activeGames' = c.games
                          /\ playerToGame' = c.p2g
                          /\ UNCHANGED <<countdownTimers, intervals, restartLocks,
                                         releaseTimers, cleanupTimers>>
                          /\ out' = e.out
                                    \cup EmitSides(Range(partsA), Range(partsB),
                                                   "game:started", "active")
    /\ UNCHANGED connected

\* the reply of game:click that ends the handler early, "" if none
clickErrorGH(p) ==
    IF p \notin DOMAIN playerToGame THEN "Not in a game"
    ELSE IF playerToGame[p] \notin DOMAIN activeGames THEN "Game not found"
    ELSE IF activeGames[playerToGame[p]].status # "active"
    THEN "Game is not active"
    ELSE IF /\ p \notin PlayerIds(activeGames[playerToGame[p]].teamA)
            /\ p \notin PlayerIds(activeGames[playerToGame[p]].teamB)
    THEN "Player not found in game"
    ELSE ""

\* socket.on('game:click'); a click that ends the game arms the cleanup timer
GameClickGH(p) ==
    /\ out = {}
    /\ p \in connected
    /\ ClickSent(p)
    /\ IF clickErrorGH(p) # ""
       THEN /\ out' = {Msg(p, "game:error", clickErrorGH(p))}
            /\ UNCHANGED gameVars
       ELSE LET gid == playerToGame[p]
                game == activeGames[gid]
                clicked == IF p \in PlayerIds(game.teamA)
                           THEN [game EXCEPT !.teamA = AddClick(@, p)]
                           ELSE [game EXCEPT !.teamB = AddClick(@, p)]
                moved == [clicked EXCEPT !.barPosition =
                             calculateBarPosition(clicked.teamA.totalClicks,
                                                  clicked.teamB.totalClicks)]
                e == checkGameEnd(moved)
                b == broadcastGameUpdateGH(e.game)
            IN /\ activeGames' = MapSet(activeGames, gid, b.game)
               /\ out' = b.out
               /\ cleanupTimers' = IF e.ended THEN cleanupTimers \cup {gid}
                                   ELSE cleanupTimers
               /\ UNCHANGED <<playerToGame, countdownTimers, intervals,
                              restartLocks, releaseTimers>>
    /\ UNCHANGED <<connected, registryVars, gamesCreated>>

\* what game:leave (lines 226-239) and disconnect (lines 282-293) share, for
\* a socket indexed to an existing game
leaveGameGH(games, p2g, p) ==
    LET gid == p2g[p]
        game == [games[gid] EXCEPT !.teamA = FilterOut(@, p),
                                   !.teamB = FilterOut(@, p)]
    IN IF Len(game.teamA.players) = 0 /\ Len(game.teamB.players) = 0
       THEN [games |-> MapDel(games, gid), p2g |-> MapDel(p2g, p), out |-> {}]
       ELSE LET b == broadcastGameUpdateGH(game)
            IN [games |-> MapSet(games, gid, b.game), p2g |-> MapDel(p2g, p),
                out |-> b.out]

\* socket.on('game:leave')
GameLeaveGH(p) ==
    /\ out = {}
    /\ p \in connected
    /\ IF p \notin DOMAIN playerToGame \/ playerToGame[p] \notin DOMAIN activeGames
       THEN /\ out' = {}
            /\ UNCHANGED <<activeGames, playerToGame>>
       ELSE LET l == leaveGameGH(activeGames, playerToGame, p)
            IN /\ activeGames' = l.games
               /\ playerToGame' = l.p2g
               /\ out' = l.out \cup {Msg(p, "game:left", "")}
    /\ UNCHANGED <<connected, registryVars, gamesCreated, countdownTimers,
                   intervals, restartLocks, releaseTimers, cleanupTimers>>

\* the transport's disconnect signal: the team handler's listener (lines
\* 275-300) and this game handler's (lines 275-294)
DisconnectGH(p) ==
    /\ out = {}
    /\ p \in connected
    /\ connected' = connected \ {p}
    /\ LET r == IF p \in DOMAIN playerTeam
                THEN removeFromTeam(p, TRUE, "Disconnect")
                ELSE [teams |-> teams, queues |-> teamQueues,
                      playerTeam |-> playerTeam, out |-> {}, found |-> FALSE]
           l == IF p \in DOMAIN playerToGame /\ playerToGame[p] \in DOMAIN activeGames
                THEN leaveGameGH(activeGames, playerToGame, p)
                ELSE [games |-> activeGames, p2g |-> playerToGame, out |-> {}]
       IN /\ teams' = r.teams
          /\ teamQueues' = r.queues
          /\ playerTeam' = r.playerTeam
          /\ activeGames' = l.games
          /\ playerToGame' = l.p2g
          /\ out' = r.out \cup l.out
    /\ UNCHANGED <<gamesCreated, countdownTimers, intervals, restartLocks,
                   releaseTimers, cleanupTimers>>

\* The setTimeout callback of a winning click (lines 209-214).  It deletes
\* the session id from activeGames and the index entry of every player the
\* session object lists when it fires; an object already deleted from
\* activeGames (by the leave that emptied it) lists no player.
CleanupGH(gid) ==
    /\ out = {}
    /\ gid \in cleanupTimers
    /\ cleanupTimers' = cleanupTimers \ {gid}
    /\ LET listed == IF gid \in DOMAIN activeGames
                     THEN PlayerIds(activeGames[gid].teamA)
                             \cup PlayerIds(activeGames[gid].teamB)
                     ELSE {}
       IN /\ activeGames' = MapDel(activeGames, gid)
          /\ playerToGame' = [p \in (DOMAIN playerToGame) \ listed |-> playerToGame[p]]
    /\ out' = {}
    /\ UNCHANGED <<connected, registryVars, gamesCreated, countdownTimers,
                   intervals, restartLocks, releaseTimers>>

\* the tick callback without its status check (lines 130-134)
Tick_NoStatusCheck(gid) ==
    /\ out = {}
    /\ intervals[gid] > 0
    /\ releaseTimers[gid] = 0
    /\ LET Stop(W) == [W EXCEPT !.ivl[gid] = @ - 1, !.timers = @ \ {gid}]
       IN IF gid \notin DOMAIN activeGames
          THEN /\ SetWorld(Stop(World))
               /\ out' = {}
          ELSE IF activeGames[gid].countdownRemaining <= 1
          THEN LET b == broadcastGameUpdate(
                            [activeGames[gid] EXCEPT !.countdownRemaining = 0,
                                                     !.status = "active"])
               IN /\ SetWorld(Stop([World EXCEPT !.games = MapSet(@, gid, b.game)]))
                  /\ out' = b.out
          ELSE LET b == broadcastGameUpdate(
                            [activeGames[gid] EXCEPT !.countdownRemaining = @ - 1])
               IN /\ SetWorld([World EXCEPT !.games = MapSet(@, gid, b.game)])
                  /\ out' = b.out
    /\ UNCHANGED <<connected, registryVars, gamesCreated>>

\* ------------------------------------------------------------------ timers
\* The tick callback of startCountdown (lines 124-146), fired by a live
\* interval timer of game gid.  The 500 ms lock release of a restart is armed
\* before the 1000 ms interval of the same restart, so node fires it first.
Tick(gid) ==
    /\ out = {}
    /\ intervals[gid] > 0
    /\ releaseTimers[gid] = 0
    /\ LET Stop(W) == [W EXCEPT !.ivl[gid] = @ - 1, !.timers = @ \ {gid}]
       IN IF gid \notin DOMAIN activeGames
          THEN /\ SetWorld(Stop(World))
               /\ out' = {}
          ELSE IF activeGames[gid].status # "countdown"
          THEN /\ SetWorld(Stop(World))
               /\ out' = {}
          ELSE IF activeGames[gid].countdownRemaining <= 1
          THEN LET b == broadcastGameUpdate(
                            [activeGames[gid] EXCEPT !.countdownRemaining = 0,
                                                     !.status = "active"])
               IN /\ SetWorld(Stop([World EXCEPT !.games = MapSet(@, gid, b.game)]))
                  /\ out' = b.out
          ELSE LET b == broadcastGameUpdate(
                            [activeGames[gid] EXCEPT !.countdownRemaining = @ - 1])
               IN /\ SetWorld([World EXCEPT !.games = MapSet(@, gid, b.game)])
                  /\ out' = b.out
    /\ UNCHANGED <<connected, registryVars, gamesCreated>>

\* a release callback that fires without deleting the guard
ReleaseLock_KeepLock(gid) ==
    /\ out = {}
    /\ releaseTimers[gid] > 0
    /\ releaseTimers' = [releaseTimers EXCEPT ![gid] = @ - 1]
    /\ out' = {}
    /\ UNCHANGED <<connected, registryVars, gamesCreated, activeGames,
                   playerToGame, countdownTimers, intervals, restartLocks,
                   cleanupTimers>>

\* the setTimeout callback of restartGame (line 173)
ReleaseLock(gid) ==
    /\ out = {}
    /\ releaseTimers[gid] > 0
    /\ releaseTimers' = [releaseTimers EXCEPT ![gid] = @ - 1]
    /\ restartLocks' = restartLocks \ {gid}
    /\ out' = {}
    /\ UNCHANGED <<connected, registryVars, gamesCreated, activeGames,
                   playerToGame, countdownTimers, intervals, cleanupTimers>>

\* ------------------------------------------------------------ specifications
InitWith(sockets) ==
    /\ connected = sockets
    /\ teams = EmptyMap
    /\ playerTeam = EmptyMap
    /\ teamQueues = EmptyMap
    /\ activeGames = EmptyMap
    /\ playerToGame = EmptyMap
    /\ countdownTimers = {}
    /\ intervals = [g \in GameIds |-> 0]
    /\ restartLocks = {}
    /\ releaseTimers = [g \in GameIds |-> 0]
    /\ cleanupTimers = {}
    /\ gamesCreated = 0
    /\ out = {}

\* socket.io hands the packets a handler emitted to the transport once the
\* handler has returned.  Every handler and timer callback waits for this
\* step (its first conjunct, out = {}); none reads `out`, so the wait removes
\* no behaviour of the handlers.
Flush ==
    /\ out # {}
    /\ out' = {}
    /\ UNCHANGED <<connected, registryVars, gameVars, gamesCreated>>

Init == InitWith(Sockets)

\* the clients still form teams: the environment's last match is not yet made
Lobby == gamesCreated < LobbyMatches

\* The sessions: NumSockets clients form teams, the first NumCreators sockets
\* creating them and the others joining, and ask for matches; once the
\* environment's last match is made the clients play it out (the game handler
\* reads nothing of the team registry).  Every player votes, leaves and
\* disconnects; the clicks come from the sockets of Clickers, which play on
\* one side or on opposite sides according to the teams formed.
Next ==
    \/ Flush
    \/ \E p \in Creators : Lobby /\ TeamCreate(p)
    \/ \E p \in Sockets \ Creators, code \in TeamIds : Lobby /\ TeamJoin(p, code)
    \/ \E p \in Sockets : Lobby /\ TeamLeave(p)
    \/ \E p \in Sockets : Lobby /\ TeamMatchStart(p)
    \/ \E p \in Sockets : Lobby /\ TeamMatchCancel(p)
    \/ \E p \in Sockets : GameRestart(p)
    \/ \E p \in Clickers : GameClick(p)
    \/ \E p \in Sockets : GameLeave(p)
    \/ \E p \in Sockets : Disconnect(p)
    \/ \E gid \in GameIds : Tick(gid)
    \/ \E gid \in GameIds : ReleaseLock(gid)

Spec == Init /\ [][Next]_vars

\* The duel: the NumCreators clients each create a team of their own, are
\* matched once and play the session out, with restarts, as in Spec.  Node's
\* timers fire: a due interval tick or lock release is run by the event loop
\* however many socket events arrive (strong fairness: the callback waits
\* while a handler's messages are still being delivered), and emitted
\* messages are delivered.
InitDuel == InitWith(Creators)

NextDuel ==
    \/ Flush
    \/ \E p \in Creators : Lobby /\ TeamCreate(p)
    \/ \E p \in Creators : Lobby /\ TeamLeave(p)
    \/ \E p \in Creators : Lobby /\ TeamMatchStart(p)
    \/ \E p \in Creators : Lobby /\ TeamMatchCancel(p)
    \/ \E p \in Creators : GameRestart(p)
    \/ \E p \in Creators : GameClick(p)
    \/ \E p \in Creators : GameLeave(p)
    \/ \E p \in Creators : Disconnect(p)
    \/ \E gid \in GameIds : Tick(gid)
    \/ \E gid \in GameIds : ReleaseLock(gid)

Fairness ==
    /\ WF_vars(Flush)
    /\ \A gid \in GameIds : SF_vars(Tick(gid))
    /\ \A gid \in GameIds : SF_vars(ReleaseLock(gid))

SpecFair == InitDuel /\ [][NextDuel]_vars /\ Fairness

\* The team registry: NumTeamSockets clients, enough to fill a team, send any
\* team event; a team is created only while fewer than MaxTeams exist.
InitTeam == InitWith(TeamSockets)

TeamSlot(p) == p \in DOMAIN playerTeam \/ Cardinality(DOMAIN teams) < MaxTeams

NextTeam ==
    \/ Flush
    \/ \E p \in TeamSockets : TeamSlot(p) /\ TeamCreate(p)
    \/ \E p \in TeamSockets, code \in TeamIds : TeamJoin(p, code)
    \/ \E p \in TeamSockets : TeamLeave(p)
    \/ \E p \in TeamSockets : TeamMatchStart(p)
    \/ \E p \in TeamSockets : TeamMatchCancel(p)
    \/ \E p \in TeamSockets : Disconnect(p)

SpecTeam == InitTeam /\ [][NextTeam]_vars

\* The tick callback on its own.  The handlers cancel the interval whenever
\* they destroy a session, and only a tick takes a session out of countdown,
\* so in Spec a tick always finds its session in countdown.  The guards of
\* lines 125-134 are exercised here by firing the callback of an armed
\* interval of game 1 on every session state of the drawn shapes: no session,
\* or a countdown, active or finished session whose sides hold up to two
\* players with up to MaxDrawnClicks clicks a side.
DrawnSide(ids, n) ==
    [players |-> [i \in DOMAIN ids |->
                     [id |-> ids[i], clicks |-> IF i = 1 THEN n ELSE 0]],
     totalClicks |-> n]

DrawnGame(idsA, idsB, a, b, status, winner, remaining) ==
    [teamA |-> DrawnSide(idsA, a),
     teamB |-> DrawnSide(idsB, b),
     status |-> status,
     winner |-> winner,
     barPosition |-> calculateBarPosition(a, b),
     countdownRemaining |-> remaining,
     restartVotesA |-> {},
     restartVotesB |-> {}]

DrawnGames ==
    LET listsA == {<<>>, <<1>>, <<1, 3>>}
        listsB == {<<>>, <<2>>, <<2, 4>>}
        clicks(ids) == IF ids = <<>> THEN {0} ELSE 0..MaxDrawnClicks
    IN {DrawnGame(idsA, idsB, 0, 0, "countdown", "none", r) :
            idsA \in listsA \ {<<>>}, idsB \in listsB \ {<<>>},
            r \in 1..COUNTDOWN_SECONDS}
       \cup UNION {{DrawnGame(idsA, idsB, a, b, "active", "none", 0) :
                       a \in clicks(idsA), b \in clicks(idsB)} :
                   idsA \in listsA \ {<<>>}, idsB \in listsB \ {<<>>}}
       \cup UNION {{DrawnGame(pr[1], pr[2], a, b, "finished", w, 0) :
                       a \in clicks(pr[1]), b \in clicks(pr[2]),
                       w \in {"teamA", "teamB"}} :
                   pr \in (listsA \X listsB) \ {<< <<>>, <<>> >>}}

InitStaleTick ==
    /\ connected = Sockets
    /\ teams = EmptyMap
    /\ playerTeam = EmptyMap
    /\ teamQueues = EmptyMap
    /\ \/ /\ activeGames = EmptyMap
          /\ playerToGame = EmptyMap
       \/ \E g \in DrawnGames :
             /\ activeGames = MapSet(EmptyMap, 1, g)
             /\ playerToGame = [p \in PlayerIds(g.teamA) \cup PlayerIds(g.teamB) |-> 1]
    /\ countdownTimers = {1}
    /\ intervals = [g \in GameIds |-> IF g = 1 THEN 1 ELSE 0]
    /\ restartLocks = {}
    /\ releaseTimers = [g \in GameIds |-> 0]
    /\ cleanupTimers = {}
    /\ gamesCreated = 1
    /\ out = {}

NextStaleTick ==
    \/ Flush
    \/ \E gid \in GameIds : Tick(gid)

SpecStaleTick == InitStaleTick /\ [][NextStaleTick]_vars

\* Rematches: the NumCreators clients each create a team of their own and go
\* on sending team events after a match, so that two teams whose session is
\* still in activeGames can be matched again.  The clients here send no
\* game:click and no game:restart; they watch the countdown, leave and
\* disconnect.
InitRematch == InitWith(Creators)

NextRematch ==
    \/ Flush
    \/ \E p \in Creators : TeamCreate(p)
    \/ \E p \in Creators : TeamLeave(p)
    \/ \E p \in Creators : TeamMatchStart(p)
    \/ \E p \in Creators : TeamMatchCancel(p)
    \/ \E p \in Creators : GameLeave(p)
    \/ \E p \in Creators : Disconnect(p)
    \/ \E gid \in GameIds : Tick(gid)

SpecRematch == InitRematch /\ [][NextRematch]_vars

\* The delayed-cleanup variant: the NumCreators clients each create a team of
\* their own and keep it, ask for matches (again after a match too), leave
\* their game and disconnect, the first NumClickers of them click, and the
\* cleanup timers fire.
InitCleanup == InitWith(Creators)

NextCleanup ==
    \/ Flush
    \/ \E p \in Creators : TeamCreate(p)
    \/ \E p \in Creators : TeamMatchStartGH(p)
    \/ \E p \in 1..NumClickers : GameClickGH(p)
    \/ \E p \in Creators : GameLeaveGH(p)
    \/ \E p \in Creators : DisconnectGH(p)
    \/ \E gid \in GameIds : CleanupGH(gid)

SpecCleanup == InitCleanup /\ [][NextCleanup]_vars

\* ------------------------------------------------------------------ claims
\* C1: after any sequence of team:create, team:join, team:leave and
\* disconnect, the leaderId of every team in the registry is the id of one of
\* its participants.
C1_LeaderIsParticipant ==
    \A id \in DOMAIN teams : teams[id].leaderId \in Range(teams[id].participants)

\* a leader has just left a team of three or more and the first remaining
\* participant has been promoted
C1_Witness ==
    \E id \in DOMAIN teams :
        /\ teamSize(teams[id]) >= 2
        /\ \E m \in out : m.ev = "team:leaderChanged" /\ m.to = teams[id].leaderId

\* C2: no team ever has more than MAX_TEAM_SIZE participants, and team:join on
\* a team that has MAX_TEAM_SIZE participants changes nothing of the registry
\* (participants, leader, queued flag, queue, player index) and answers the
\* requester alone with team:error 'Team full'.
C2_TeamFull ==
    /\ [](\A id \in DOMAIN teams : teamSize(teams[id]) <= MAX_TEAM_SIZE)
    /\ [][\A p \in TeamSockets, code \in TeamIds :
            (/\ p \notin DOMAIN playerTeam
             /\ code \in DOMAIN teams
             /\ Len(teams[code].participants) >= MAX_TEAM_SIZE
             /\ TeamJoin(p, code))
            => /\ out' = {Msg(p, "team:error", "Team full")}
               /\ UNCHANGED registryVars]_vars

\* a sixth socket has just been refused by a full team that is queued
C2_Witness ==
    /\ \E m \in out : m.ev = "team:error" /\ m.msg = "Team full"
    /\ \E id \in DOMAIN teams :
           /\ Len(teams[id].participants) = MAX_TEAM_SIZE
           /\ teams[id].inQueue
           /\ id \in Range(teamQueues[MAX_TEAM_SIZE])

\* the clamped difference of the two totals, written out
ClampedDifference(game) ==
    LET d == game.teamB.totalClicks - game.teamA.totalClicks
    IN IF d < -25 THEN -25 ELSE IF d > 25 THEN 25 ELSE d

\* C3: after every operation the barPosition of every session is
\* clamp(teamB.totalClicks - teamA.totalClicks, -25, +25).
C3_BarIsClampedDifference ==
    \A gid \in DOMAIN activeGames :
        activeGames[gid].barPosition = ClampedDifference(activeGames[gid])

\* both sides have clicked and the bar is off centre
C3_Witness ==
    \E gid \in DOMAIN activeGames :
        /\ activeGames[gid].teamA.totalClicks >= 1
        /\ activeGames[gid].teamB.totalClicks >= 1
        /\ activeGames[gid].barPosition # 0

\* socket p is indexed to an existing game that lists it
InGame(p) ==
    /\ p \in DOMAIN playerToGame
    /\ playerToGame[p] \in DOMAIN activeGames
    /\ p \in PlayerIds(activeGames[playerToGame[p]].teamA)
                \cup PlayerIds(activeGames[playerToGame[p]].teamB)

\* a game:click of socket p is one the handler applies
AcceptsClick(p) == InGame(p) /\ activeGames[playerToGame[p]].status = "active"

\* C4: a click that brings barPosition to -WIN_THRESHOLD leaves the session
\* finished with winner teamA, one that brings it to +WIN_THRESHOLD leaves it
\* finished with winner teamB, and one that leaves it strictly between the
\* thresholds leaves the session active with no winner.
C4_ClickWin ==
    [][\A p \in Sockets :
          (AcceptsClick(p) /\ GameClick(p))
          => /\ playerToGame[p] \in DOMAIN activeGames'
             /\ LET g == activeGames'[playerToGame[p]]
                IN /\ g.barPosition = -WIN_THRESHOLD
                      => g.status = "finished" /\ g.winner = "teamA"
                   /\ g.barPosition = WIN_THRESHOLD
                      => g.status = "finished" /\ g.winner = "teamB"
                   /\ (-WIN_THRESHOLD < g.barPosition /\ g.barPosition < WIN_THRESHOLD)
                      => g.status = "active" /\ g.winner = "none"]_vars

\* the click that took the bar to -WIN_THRESHOLD has just been broadcast
C4_Witness ==
    \E gid \in DOMAIN activeGames :
        /\ activeGames[gid].barPosition = -WIN_THRESHOLD
        /\ activeGames[gid].status = "finished"
        /\ activeGames[gid].winner = "teamA"
        /\ activeGames[gid].teamA.totalClicks >= WIN_THRESHOLD
        /\ \E m \in out : m.ev = "game:update" /\ m.msg = "finished"

\* the step takes game gid from finished to countdown
Restarted(gid) ==
    /\ gid \in DOMAIN activeGames
    /\ gid \in DOMAIN activeGames'
    /\ activeGames[gid].status = "finished"
    /\ activeGames'[gid].status = "countdown"

\* C5: a restart (finished -> countdown) happens only in a step in which, the
\* vote of that step counted, each side's vote set has as many ids as the side
\* has players, for both sides at once, and both sides are non-empty; a vote
\* that leaves a side short restarts nothing.
C5_RestartOnlyUnanimous ==
    [][\A gid \in GameIds :
          Restarted(gid)
          => LET g == activeGames[gid]
             IN \E p \in PlayerIds(g.teamA) \cup PlayerIds(g.teamB) :
                   /\ Len(g.teamA.players) > 0
                   /\ Len(g.teamB.players) > 0
                   /\ Cardinality(g.restartVotesA \cup ({p} \cap PlayerIds(g.teamA)))
                        = Len(g.teamA.players)
                   /\ Cardinality(g.restartVotesB \cup ({p} \cap PlayerIds(g.teamB)))
                        = Len(g.teamB.players)]_vars

\* a two-against-two session has just been restarted
C5_Witness ==
    \E gid \in DOMAIN activeGames :
        /\ gid \in restartLocks
        /\ activeGames[gid].status = "countdown"
        /\ Len(activeGames[gid].teamA.players) = 2
        /\ Len(activeGames[gid].teamB.players) = 2

\* C6 (as claimed): no operation leaves a session finished with both sides
\* non-empty and every current member of both sides in the vote sets.
C6_UnanimousAlwaysRestarts ==
    \A gid \in DOMAIN activeGames :
        LET g == activeGames[gid]
        IN ~(/\ g.status = "finished"
             /\ Len(g.teamA.players) > 0
             /\ Len(g.teamB.players) > 0
             /\ PlayerIds(g.teamA) \subseteq g.restartVotesA
             /\ PlayerIds(g.teamB) \subseteq g.restartVotesB)

\* C7: right after a restart every remaining player's click counter and both
\* totals are 0, barPosition is 0, there is no winner, both vote sets are
\* empty, the status is countdown with countdownRemaining COUNTDOWN_SECONDS,
\* and a countdown timer is armed for the session.
C7_RestartResets ==
    [][\A gid \in GameIds :
          Restarted(gid)
          => LET g == activeGames'[gid]
             IN /\ \A i \in DOMAIN g.teamA.players : g.teamA.players[i].clicks = 0
                /\ \A i \in DOMAIN g.teamB.players : g.teamB.players[i].clicks = 0
                /\ g.teamA.totalClicks = 0
                /\ g.teamB.totalClicks = 0
                /\ g.barPosition = 0
                /\ g.winner = "none"
                /\ g.restartVotesA = {}
                /\ g.restartVotesB = {}
                /\ g.countdownRemaining = COUNTDOWN_SECONDS
                /\ gid \in countdownTimers'
                /\ intervals'[gid] = 1]_vars

\* a restarted session whose first countdown broadcast is still in the outbox
C7_Witness ==
    \E gid \in DOMAIN activeGames :
        /\ gid \in restartLocks
        /\ releaseTimers[gid] = 1
        /\ activeGames[gid].countdownRemaining = COUNTDOWN_SECONDS
        /\ gid \in countdownTimers
        /\ \E m \in out : m.ev = "game:update" /\ m.msg = "countdown"

\* C8: a game:click that is not sent by a listed player of an active session
\* (the session is in countdown or finished, or the socket has no session)
\* changes nothing of the game state and answers the requester alone with one
\* game:error.
C8_ClickOnlyWhenActive ==
    [][\A p \in Sockets :
          (~AcceptsClick(p) /\ GameClick(p))
          => /\ UNCHANGED gameVars
             /\ \E text \in {"Not in a game", "Game not found",
                             "Game has not started yet", "Game is not active",
                             "Player not found in game"} :
                    out' = {Msg(p, "game:error", text)}
             /\ (InGame(p) /\ activeGames[playerToGame[p]].status = "countdown")
                => out' = {Msg(p, "game:error", "Game has not started yet")}
             /\ (InGame(p) /\ activeGames[playerToGame[p]].status = "finished")
                => out' = {Msg(p, "game:error", "Game is not active")}]_vars

\* a click on a session that was won by clicks has just been refused
C8_Witness ==
    /\ \E m \in out : m.ev = "game:error" /\ m.msg = "Game is not active"
    /\ \E gid \in DOMAIN activeGames :
           /\ activeGames[gid].status = "finished"
           /\ activeGames[gid].barPosition = WIN_THRESHOLD

\* a game:restart of socket p is one the handler records
AcceptsVote(p) ==
    /\ InGame(p)
    /\ activeGames[playerToGame[p]].status = "finished"
    /\ Len(activeGames[playerToGame[p]].teamA.players) > 0
    /\ Len(activeGames[playerToGame[p]].teamB.players) > 0

\* C9: a game:restart on a session that is not finished, or that has an empty
\* side, changes nothing of the game state and is answered with game:error
\* ('Game not finished yet' / 'Cannot restart: a team is empty'); a recorded
\* vote that does not complete the restart adds the voter to its side's vote
\* set and nothing else, so a second vote of the same player changes no set.
C9_VoteOnlyWhenFinished ==
    [][\A p \in Sockets :
          /\ (~AcceptsVote(p) /\ GameRestart(p))
             => /\ UNCHANGED gameVars
                /\ \E m \in out' : m.to = p /\ m.ev = "game:error"
                /\ (InGame(p) /\ activeGames[playerToGame[p]].status # "finished")
                   => out' = {Msg(p, "game:error", "Game not finished yet")}
                /\ (InGame(p) /\ activeGames[playerToGame[p]].status = "finished")
                   => out' = {Msg(p, "game:error", "Cannot restart: a team is empty")}
          /\ (AcceptsVote(p) /\ GameRestart(p) /\ ~Restarted(playerToGame[p]))
             => LET g == activeGames[playerToGame[p]]
                    h == activeGames'[playerToGame[p]]
                IN /\ h.restartVotesA = g.restartVotesA \cup ({p} \cap PlayerIds(g.teamA))
                   /\ h.restartVotesB = g.restartVotesB \cup ({p} \cap PlayerIds(g.teamB))
                   /\ h = [g EXCEPT !.restartVotesA = h.restartVotesA,
                                    !.restartVotesB = h.restartVotesB]]_vars

\* a vote on a finished session with an empty side has just been refused
C9_Witness ==
    /\ \E m \in out : m.ev = "game:error" /\ m.msg = "Cannot restart: a team is empty"
    /\ \E gid \in DOMAIN activeGames : activeGames[gid].status = "finished"

\* C10: after every operation each side's restart-vote set holds only ids of
\* players currently in that side's player list, so the id of a player who
\* voted and then left or disconnected is in neither set.
C10_VotesAreCurrentPlayers ==
    \A gid \in DOMAIN activeGames :
        /\ activeGames[gid].restartVotesA \subseteq PlayerIds(activeGames[gid].teamA)
        /\ activeGames[gid].restartVotesB \subseteq PlayerIds(activeGames[gid].teamB)

\* a player has just left a finished two-against-two session in which a
\* vote of a remaining player stands
C10_Witness ==
    \E gid \in DOMAIN activeGames :
        /\ activeGames[gid].status = "finished"
        /\ \E m \in out : m.ev = "game:left"
        /\ Len(activeGames[gid].teamA.players) = 1
        /\ Len(activeGames[gid].teamB.players) = 2
        /\ activeGames[gid].restartVotesA # {}
        /\ activeGames[gid].restartVotesB # {}

\* the positions <<size, index>> at which team id stands in the queue map
QueuePositions(id) ==
    {x \in UNION {{<<size, i>> : i \in DOMAIN teamQueues[size]} :
                     size \in DOMAIN teamQueues} :
        teamQueues[x[1]][x[2]] = id}

\* C11: no team id occurs more than once in a queue bucket, and enqueueTeam on
\* a team that already stands in its bucket leaves the queue map and the
\* registry unchanged, emits nothing and makes no match.
C11_EnqueueIdempotent ==
    \A size \in DOMAIN teamQueues :
        LET list == teamQueues[size]
        IN /\ \A i, j \in DOMAIN list : list[i] = list[j] => i = j
           /\ \A i \in DOMAIN list :
                 /\ list[i] \in DOMAIN teams
                 /\ LET e == enqueueTeam(teams, teamQueues, list[i])
                    IN /\ e.queues = teamQueues
                       /\ e.teams = teams
                       /\ e.pair = <<>>
                       /\ e.out = {}

\* the leader of a queued team has just asked for a match again
C11_Witness ==
    /\ \E m \in out : m.ev = "team:match:error" /\ m.msg = "Already queued"
    /\ \E id \in DOMAIN teams : teams[id].inQueue /\ QueuePositions(id) # {}

\* the step hands out a game id: attemptMatch has called createGame
MatchMade == gamesCreated' = gamesCreated + 1

\* the socket ids of a side's players, in list order
SideIds(side) == [i \in DOMAIN side.players |-> side.players[i].id]

\* C12: a session is created only by a team:match:start whose team joins a
\* bucket that already holds another team; teamA is the team at the head of
\* the bucket (the one that waited longest) and teamB the next in line, the
\* starter's own team when only one was waiting; both leave the bucket.
C12_FifoPairs ==
    [][MatchMade
       => \E p \in Sockets :
             /\ p \in DOMAIN playerTeam
             /\ TeamMatchStart(p)
             /\ LET y == playerTeam[p]
                    size == Len(teams[y].participants)
                IN /\ size \in DOMAIN teamQueues
                   /\ Len(teamQueues[size]) >= 1
                   /\ y \notin Range(teamQueues[size])
                   /\ LET waiting == Append(teamQueues[size], y)
                          g == activeGames'[gamesCreated']
                      IN /\ SideIds(g.teamA) = teams[waiting[1]].participants
                         /\ SideIds(g.teamB) = teams[waiting[2]].participants
                         /\ IF Len(waiting) = 2
                            THEN size \notin DOMAIN teamQueues'
                            ELSE teamQueues'[size] = SubSeq(waiting, 3, Len(waiting))]_vars

\* the second of two teams of two has just asked for a match and the session
\* has been created with the team that waited as teamA
C12_Witness ==
    /\ gamesCreated = 1
    /\ \E m \in out : m.ev = "team:match:queued"
    /\ \E m \in out : m.ev = "game:started" /\ m.yourTeamIsA = "true"
    /\ 1 \in DOMAIN activeGames
    /\ Len(activeGames[1].teamA.players) = 2
    /\ DOMAIN teamQueues = {}

\* C13: at creation the two sides of a session have the same number of
\* players, at least one each.
C13_EqualSides ==
    [][MatchMade
       => LET g == activeGames'[gamesCreated']
          IN /\ Len(g.teamA.players) = Len(g.teamB.players)
             /\ Len(g.teamA.players) >= 1]_vars

\* a session of two against two has just been created
C13_Witness ==
    /\ \E m \in out : m.ev = "game:started" /\ m.yourTeamIsA = "false"
    /\ \E gid \in DOMAIN activeGames :
           /\ Len(activeGames[gid].teamA.players) = 2
           /\ Len(activeGames[gid].teamB.players) = 2
           /\ activeGames[gid].countdownRemaining = COUNTDOWN_SECONDS

\* C14: every team stands at no more than one position of the queue map, at
\* one exactly when its inQueue flag is set, and then in the bucket keyed by
\* its participant count; every queued id is a team of the registry; no
\* bucket of the queue map is empty.
C14_QueueConsistent ==
    /\ \A id \in DOMAIN teams :
          /\ Cardinality(QueuePositions(id)) <= 1
          /\ teams[id].inQueue <=> QueuePositions(id) # {}
          /\ \A x \in QueuePositions(id) : x[1] = Len(teams[id].participants)
    /\ \A size \in DOMAIN teamQueues :
          /\ Len(teamQueues[size]) >= 1
          /\ Range(teamQueues[size]) \subseteq DOMAIN teams

\* two teams of different sizes wait in two buckets
C14_Witness ==
    /\ Cardinality(DOMAIN teamQueues) = 2
    /\ \A id \in DOMAIN teams : teams[id].inQueue

\* C15: a step that changes the participants of a team that is queued, or
\* deletes it, leaves the team in no bucket and with inQueue cleared, and
\* every member it has before and after is sent team:match:cancelled; so the
\* participants of a team never change while it stays queued.
C15_NoChangeWhileQueued ==
    [][\A id \in DOMAIN teams :
          teams[id].inQueue
          => \/ /\ id \in DOMAIN teams'
                /\ teams'[id].participants = teams[id].participants
             \/ /\ \A size \in DOMAIN teamQueues' : id \notin Range(teamQueues'[size])
                /\ id \in DOMAIN teams' => ~teams'[id].inQueue
                /\ id \in DOMAIN teams'
                   => \A q \in Range(teams[id].participants)
                                  \cap Range(teams'[id].participants) :
                         \E m \in out' : m.to = q /\ m.ev = "team:match:cancelled"]_vars

\* a socket has just joined a team that was queued
C15_Witness ==
    /\ \E m \in out : m.ev = "team:match:cancelled" /\ m.msg = "Player joined"
    /\ \E m \in out : m.ev = "team:joined"
    /\ \E id \in DOMAIN teams :
           /\ Len(teams[id].participants) >= 2
           /\ ~teams[id].inQueue
    /\ DOMAIN teamQueues = {}

\* C16: no team of the registry has zero participants, every queued id is a
\* team of the registry, and a team:leave or disconnect of the only
\* participant of a team removes the team from the registry and from the
\* queue map in that step.
C16_NoEmptyTeam ==
    /\ [](\A id \in DOMAIN teams : Len(teams[id].participants) >= 1)
    /\ [](\A size \in DOMAIN teamQueues :
             \A i \in DOMAIN teamQueues[size] :
                /\ teamQueues[size][i] \in DOMAIN teams
                /\ Len(teams[teamQueues[size][i]].participants) >= 1)
    /\ [][\A p \in TeamSockets :
             (/\ p \in DOMAIN playerTeam
              /\ playerTeam[p] \in DOMAIN teams
              /\ teams[playerTeam[p]].participants = <<p>>
              /\ (TeamLeave(p) \/ Disconnect(p)))
             => /\ playerTeam[p] \notin DOMAIN teams'
                /\ \A size \in DOMAIN teamQueues' :
                      playerTeam[p] \notin Range(teamQueues'[size])]_vars

\* the only participant of a queued team has just left it
C16_Witness ==
    /\ DOMAIN teams = {}
    /\ DOMAIN teamQueues = {}
    /\ \E m \in out : m.ev = "team:left"
    /\ \E m \in out : m.ev = "team:match:cancelled" /\ m.msg = "Player left"

\* C17: a socket is a participant of no more than one team and is listed
\* there once; team:create and team:join of a socket that is indexed to a
\* team answer it alone with team:error 'Already in a team', and team:join of
\* an unindexed socket with an unknown invite code answers 'Team not found';
\* in all three cases teams, queue map and player index are unchanged.
C17_OneTeamPerPlayer ==
    /\ [](\A p \in TeamSockets :
             /\ Cardinality({id \in DOMAIN teams :
                                p \in Range(teams[id].participants)}) <= 1
             /\ \A id \in DOMAIN teams :
                   \A i, j \in DOMAIN teams[id].participants :
                      teams[id].participants[i] = teams[id].participants[j] => i = j)
    /\ [][\A p \in TeamSockets :
             (p \in DOMAIN playerTeam /\ TeamCreate(p))
             => /\ out' = {Msg(p, "team:error", "Already in a team")}
                /\ UNCHANGED registryVars]_vars
    /\ [][\A p \in TeamSockets, code \in TeamIds :
             TeamJoin(p, code)
             => /\ p \in DOMAIN playerTeam
                   => /\ out' = {Msg(p, "team:error", "Already in a team")}
                      /\ UNCHANGED registryVars
                /\ (p \notin DOMAIN playerTeam /\ code \notin DOMAIN teams)
                   => /\ out' = {Msg(p, "team:error", "Team not found")}
                      /\ UNCHANGED registryVars]_vars

\* a member who is not the leader has just been refused a second membership
C17_Witness ==
    \E id \in DOMAIN teams :
        \E m \in out :
            /\ m.ev = "team:error"
            /\ m.msg = "Already in a team"
            /\ m.to \in Range(teams[id].participants)
            /\ m.to # teams[id].leaderId

\* C18 (as claimed): in every step a session's status stays the same or goes
\* countdown -> active, active -> finished or finished -> countdown; no step
\* takes it from countdown to finished, finished to active or active to
\* countdown.
C18_StatusSteps ==
    [][\A gid \in GameIds :
          (gid \in DOMAIN activeGames /\ gid \in DOMAIN activeGames')
          => LET a == activeGames[gid].status
                 b == activeGames'[gid].status
             IN \/ a = b
                \/ a = "countdown" /\ b = "active"
                \/ a = "active" /\ b = "finished"
                \/ a = "finished" /\ b = "countdown"]_vars

\* the step is the game:leave or the disconnect of a player of a session
Leaves(p) == InGame(p) /\ (GameLeave(p) \/ Disconnect(p))

\* C19: a game:leave or disconnect that empties one side of a session that
\* is not in countdown, the other side still having players, leaves the
\* session finished with the other side as winner; in countdown it leaves
\* status countdown and the winner as it was.
C19_EmptySideLoses ==
    [][\A p \in Sockets :
          Leaves(p)
          => LET gid == playerToGame[p]
                 g == activeGames[gid]
                 restA == PlayerIds(g.teamA) \ {p}
                 restB == PlayerIds(g.teamB) \ {p}
             IN /\ (g.status # "countdown" /\ restA = {} /\ restB # {})
                   => /\ gid \in DOMAIN activeGames'
                      /\ activeGames'[gid].status = "finished"
                      /\ activeGames'[gid].winner = "teamB"
                /\ (g.status # "countdown" /\ restB = {} /\ restA # {})
                   => /\ gid \in DOMAIN activeGames'
                      /\ activeGames'[gid].status = "finished"
                      /\ activeGames'[gid].winner = "teamA"
                /\ (g.status = "countdown" /\ (restA = {} \/ restB = {})
                                           /\ (restA # {} \/ restB # {}))
                   => /\ gid \in DOMAIN activeGames'
                      /\ activeGames'[gid].status = "countdown"
                      /\ activeGames'[gid].winner = g.winner]_vars

\* the last player of teamA has just left a session the clicks had not
\* decided, and teamB has won
C19_Witness ==
    \E gid \in DOMAIN activeGames :
        /\ activeGames[gid].status = "finished"
        /\ activeGames[gid].winner = "teamB"
        /\ activeGames[gid].barPosition < 0
        /\ activeGames[gid].barPosition > -WIN_THRESHOLD
        /\ Len(activeGames[gid].teamA.players) = 0
        /\ \E m \in out : m.ev = "game:update" /\ m.msg = "finished"

\* C20: a game:leave or disconnect after which both sides of the session
\* still have a player changes neither status nor winner, and leaves
\* barPosition and both totalClicks as they were.
C20_LeaveKeepsScore ==
    [][\A p \in Sockets :
          Leaves(p)
          => LET gid == playerToGame[p]
                 g == activeGames[gid]
             IN (PlayerIds(g.teamA) \ {p} # {} /\ PlayerIds(g.teamB) \ {p} # {})
                => /\ gid \in DOMAIN activeGames'
                   /\ activeGames'[gid].status = g.status
                   /\ activeGames'[gid].winner = g.winner
                   /\ activeGames'[gid].barPosition = g.barPosition
                   /\ activeGames'[gid].teamA.totalClicks = g.teamA.totalClicks
                   /\ activeGames'[gid].teamB.totalClicks = g.teamB.totalClicks]_vars

\* a player who had clicked has just left an active session: teamA's total
\* still counts the click
C20_Witness ==
    \E gid \in DOMAIN activeGames :
        /\ activeGames[gid].status = "active"
        /\ Len(activeGames[gid].teamA.players) = 1
        /\ Len(activeGames[gid].teamB.players) >= 1
        /\ activeGames[gid].teamA.players[1].clicks < activeGames[gid].teamA.totalClicks
        /\ activeGames[gid].barPosition = -activeGames[gid].teamA.totalClicks
        /\ \E m \in out : m.ev = "game:update" /\ m.msg = "active" /\ m.yourTeamIsA = "true"

\* C21: a session just created has barPosition 0, status countdown,
\* countdownRemaining 3, no winner, both restart-vote sets empty, every
\* player's click counter and both team totals 0, and every player of both
\* matched teams is a player of it and indexed to its id.
C21_FreshSession ==
    [][MatchMade =>
          LET gid == gamesCreated'
              g == activeGames'[gid]
              matched == {id \in DOMAIN teams :
                             teams[id].participants
                                \in {SideIds(g.teamA), SideIds(g.teamB)}}
          IN /\ gid \notin DOMAIN activeGames
             /\ gid \in DOMAIN activeGames'
             /\ g.barPosition = 0
             /\ g.status = "countdown"
             /\ g.countdownRemaining = 3
             /\ g.winner = "none"
             /\ g.restartVotesA = {}
             /\ g.restartVotesB = {}
             /\ \A side \in {g.teamA, g.teamB} :
                   /\ side.totalClicks = 0
                   /\ Len(side.players) > 0
                   /\ \A i \in DOMAIN side.players : side.players[i].clicks = 0
             /\ Cardinality(matched) = 2
             /\ \A id \in matched :
                   \A p \in Range(teams[id].participants) :
                      /\ p \in PlayerIds(g.teamA) \cup PlayerIds(g.teamB)
                      /\ p \in DOMAIN playerToGame'
                      /\ playerToGame'[p] = gid]_vars

\* two teams of two have just been matched: the session is new and its
\* game:started messages are still in the outbox
C21_Witness ==
    /\ gamesCreated = 1
    /\ 1 \in DOMAIN activeGames
    /\ Len(activeGames[1].teamA.players) = 2
    /\ Len(activeGames[1].teamB.players) = 2
    /\ \E m \in out : m.ev = "game:started"

\* team:match:start of socket p is refused with a team:match:error
StartRefused(p) ==
    \/ p \notin DOMAIN playerTeam
    \/ playerTeam[p] \notin DOMAIN teams
    \/ teams[playerTeam[p]].leaderId # p
    \/ teams[playerTeam[p]].inQueue

\* C22: a team:match:start of a requester that is in no team, whose team is
\* missing, that is not the leader, or whose team is already queued, yields
\* one team:match:error to the requester and changes no team, queue or
\* session state; an accepted one appends the team to the bucket keyed by its
\* current size and sets inQueue (when a team was already waiting in that
\* bucket the two are matched in the same step).
C22_StartOnlyOnSuccess ==
    [][\A p \in Sockets :
          TeamMatchStart(p) =>
             IF StartRefused(p)
             THEN /\ \E m \in out' : out' = {m} /\ m.to = p
                                     /\ m.ev = "team:match:error"
                  /\ UNCHANGED <<registryVars, gameVars, gamesCreated>>
             ELSE LET id == playerTeam[p]
                      size == teamSize(teams[id])
                      waiting == IF size \in DOMAIN teamQueues
                                 THEN teamQueues[size] ELSE <<>>
                  IN IF waiting = <<>>
                     THEN /\ teamQueues' = MapSet(teamQueues, size, <<id>>)
                          /\ teams' = [teams EXCEPT ![id].inQueue = TRUE]
                          /\ UNCHANGED <<playerTeam, gameVars, gamesCreated>>
                     ELSE /\ MatchMade
                          /\ id \in Range(Append(waiting, id))
                          /\ ~teams'[id].inQueue]_vars

\* a team of two stands in bucket 2 while another team exists, and a
\* non-leader's team:match:start has just been refused
C22_Witness ==
    /\ \E m \in out : m.ev = "team:match:error" /\ m.msg = "Only leader can start"
    /\ 2 \in DOMAIN teamQueues
    /\ Cardinality(DOMAIN teams) = 2

\* C23: a team:match:start or team:match:cancel sent by a member that is not
\* the leader changes no team (so no inQueue flag) and no bucket; a
\* team:match:cancel of the leader of a team that is not queued sends
\* 'Not queued' and changes nothing.
C23_OnlyLeaderQueues ==
    [][\A p \in TeamSockets :
          (p \in DOMAIN playerTeam /\ playerTeam[p] \in DOMAIN teams) =>
             LET team == teams[playerTeam[p]]
             IN /\ (team.leaderId # p /\ (TeamMatchStart(p) \/ TeamMatchCancel(p)))
                      => /\ UNCHANGED <<teams, playerTeam, teamQueues>>
                         /\ \E m \in out' : out' = {m} /\ m.to = p
                                            /\ m.ev = "team:match:error"
                /\ (team.leaderId = p /\ ~team.inQueue /\ TeamMatchCancel(p))
                      => /\ out' = {Msg(p, "team:match:error", "Not queued")}
                         /\ UNCHANGED <<registryVars, gameVars, gamesCreated>>]_vars

\* the team is queued and a non-leader's team:match:cancel has just been
\* refused
C23_Witness ==
    /\ \E m \in out : m.ev = "team:match:error" /\ m.msg = "Only leader can cancel"
    /\ \E id \in DOMAIN teams : teams[id].inQueue /\ teamSize(teams[id]) > 1

\* C24: every tick of a session in countdown lowers countdownRemaining by
\* exactly one, keeps status countdown while the result is above 0 and sets
\* status active when the result is 0 (so a session created or restarted
\* with countdownRemaining 3 becomes active on its 3rd tick, never earlier).
C24_CountdownTicks ==
    [][\A gid \in GameIds :
          (/\ gid \in DOMAIN activeGames
           /\ activeGames[gid].status = "countdown"
           /\ Tick(gid))
          => /\ gid \in DOMAIN activeGames'
             /\ activeGames'[gid].countdownRemaining
                   = activeGames[gid].countdownRemaining - 1
             /\ activeGames'[gid].status
                   = IF activeGames'[gid].countdownRemaining = 0
                     THEN "active" ELSE "countdown"]_vars

\* C25: a tick that finds its session gone or no longer in countdown changes
\* no session, no index entry and no restart guard and sends nothing; it only
\* disarms its own interval.
C25_StaleTickIsInert ==
    [][\A gid \in GameIds :
          (/\ Tick(gid)
           /\ (gid \notin DOMAIN activeGames
               \/ activeGames[gid].status # "countdown"))
          => /\ UNCHANGED <<activeGames, playerToGame, restartLocks, releaseTimers>>
             /\ out' = {}
             /\ intervals' = [intervals EXCEPT ![gid] = @ - 1]
             /\ countdownTimers' = countdownTimers \ {gid}]_vars

\* the interval of a session that no longer exists has fired and is disarmed
C25_Witness ==
    /\ activeGames = EmptyMap
    /\ gamesCreated = 1
    /\ intervals[1] = 0
    /\ countdownTimers = {}

\* C26: no session whose two sides are both empty exists in any state, and
\* the game:leave or disconnect of the last player of a session removes the
\* session in that step and leaves no countdown interval of it armed.
C26_NoEmptySession ==
    /\ [](\A gid \in DOMAIN activeGames :
             \/ Len(activeGames[gid].teamA.players) > 0
             \/ Len(activeGames[gid].teamB.players) > 0)
    /\ [][\A p \in Sockets :
             (/\ Leaves(p)
              /\ PlayerIds(activeGames[playerToGame[p]].teamA)
                    \cup PlayerIds(activeGames[playerToGame[p]].teamB) = {p})
             => /\ playerToGame[p] \notin DOMAIN activeGames'
                /\ playerToGame[p] \notin countdownTimers'
                /\ intervals'[playerToGame[p]] = 0]_vars

\* the last player has just left a session that was in the countdown of a
\* restart (the release of the restart guard is still pending, so no tick
\* has fired): the session is gone and its interval is cancelled
C26_Witness ==
    /\ gamesCreated = 1
    /\ activeGames = EmptyMap
    /\ releaseTimers[1] = 1
    /\ intervals[1] = 0
    /\ countdownTimers = {}
    /\ \E m \in out : m.ev = "game:left"

\* C28: a restart takes the restart guard, the guard is held exactly while
\* its release timer is pending, no restart is performed while it is held,
\* and a game:restart arriving while it is held changes no session.
C28_GuardedRestart ==
    /\ [](\A gid \in GameIds : (gid \in restartLocks) <=> (releaseTimers[gid] > 0))
    /\ [][\A gid \in GameIds :
             /\ Restarted(gid) => (gid \notin restartLocks /\ gid \in restartLocks')
             /\ gid \in restartLocks =>
                   \A p \in Sockets :
                      (p \in DOMAIN playerToGame /\ playerToGame[p] = gid
                       /\ GameRestart(p))
                      => UNCHANGED gameVars]_vars

\* the restart guard is held and a game:restart has just been refused
C28_Witness ==
    /\ 1 \in restartLocks
    /\ \E m \in out : m.ev = "game:error" /\ m.msg = "Game not finished yet"

\* C29: the game:started messages of a match carry the status the new
\* session has (countdown) and go to every player of teamA with yourTeamIsA
\* true and to every player of teamB with yourTeamIsA false.
C29_StartedReportsState ==
    (\E m \in out : m.ev = "game:started") =>
        LET g == activeGames[gamesCreated]
        IN /\ g.status = "countdown"
           /\ {m \in out : m.ev = "game:started"}
                 = EmitSides(PlayerIds(g.teamA), PlayerIds(g.teamB),
                             "game:started", g.status)

\* C27: once every player snapshotted into a session has left it or
\* disconnected, the session is no longer in activeGames; in particular no
\* session exists once every client has disconnected.
C27_NoOrphanSession ==
    \A gid \in DOMAIN activeGames :
       \E p \in PlayerIds(activeGames[gid].teamA) \cup PlayerIds(activeGames[gid].teamB) :
          /\ p \in connected
          /\ p \in DOMAIN playerToGame

\* C30: when the cleanup timer armed by a winning click fires, every index
\* entry that names another session stays as it is, and if its session is
\* no longer in activeGames neither activeGames nor the index changes.
C30_CleanupOwnSession ==
    [][\A gid \in GameIds :
          CleanupGH(gid) =>
             /\ \A p \in DOMAIN playerToGame :
                   playerToGame[p] # gid =>
                      /\ p \in DOMAIN playerToGame'
                      /\ playerToGame'[p] = playerToGame[p]
             /\ gid \notin DOMAIN activeGames =>
                   UNCHANGED <<activeGames, playerToGame>>]_vars

\* C31: in every state every player listed in a side of an existing session
\* is indexed to that session, so no player id is listed in two existing
\* sessions.
C31_ListedIsIndexed ==
    \A gid \in DOMAIN activeGames :
       \A p \in PlayerIds(activeGames[gid].teamA) \cup PlayerIds(activeGames[gid].teamB) :
          /\ p \in DOMAIN playerToGame
          /\ playerToGame[p] = gid

\* C32: a step that leaves a finished session finished keeps its winner.
C32_WinnerIsFinal ==
    [][\A gid \in GameIds :
          (/\ gid \in DOMAIN activeGames
           /\ gid \in DOMAIN activeGames'
           /\ activeGames[gid].status = "finished"
           /\ activeGames'[gid].status = "finished")
          => activeGames'[gid].winner = activeGames[gid].winner]_vars

\* C33: in every state a session has a winner exactly if it is finished.
C33_WinnerIffFinished ==
    \A gid \in DOMAIN activeGames :
       (activeGames[gid].winner \in {"teamA", "teamB"})
          <=> (activeGames[gid].status = "finished")

\* a round was won by clicks and the restart has put the session back in
\* countdown with no winner
C33_Witness ==
    /\ 1 \in DOMAIN activeGames
    /\ 1 \in restartLocks
    /\ activeGames[1].status = "countdown"
    /\ activeGames[1].winner = "none"

\* C34: in every state an interval timer is armed for a game id exactly if
\* the session exists and is in countdown, never more than one per id, and
\* countdownTimers holds exactly the ids with an armed interval.
C34_TimerIffCountdown ==
    \A gid \in GameIds :
       /\ intervals[gid] <= 1
       /\ (gid \in countdownTimers) <=> (intervals[gid] = 1)
       /\ (intervals[gid] = 1)
             <=> (gid \in DOMAIN activeGames /\ activeGames[gid].status = "countdown")

\* the last tick of a countdown has just fired: the session is active and no
\* interval is armed
C34_Witness ==
    /\ 1 \in DOMAIN activeGames
    /\ activeGames[1].status = "active"
    /\ activeGames[1].countdownRemaining = 0
    /\ intervals[1] = 0
    /\ countdownTimers = {}
    /\ \E m \in out : m.ev = "game:update" /\ m.msg = "active"

\* a session with this id exists and is in countdown
InCountdown(gid) ==
    /\ gid \in DOMAIN activeGames
    /\ activeGames[gid].status = "countdown"

\* C35: with the timers firing, every session in countdown eventually is no
\* longer in countdown: it has become active or finished, or it is destroyed.
C35_CountdownEnds ==
    \A gid \in GameIds : InCountdown(gid) ~> ~InCountdown(gid)

\* the three ticks of a countdown have fired and the session is active
C35_Witness ==
    /\ 1 \in DOMAIN activeGames
    /\ activeGames[1].status = "active"
    /\ activeGames[1].countdownRemaining = 0
    /\ activeGames[1].teamA.totalClicks = 0
    /\ activeGames[1].teamB.totalClicks = 0
    /\ out = {}

\* the vote of socket p, counted, makes the votes of its session unanimous
CompletesVote(p) ==
    LET g == activeGames[playerToGame[p]]
    IN /\ PlayerIds(g.teamA) \subseteq g.restartVotesA \cup {p}
       /\ PlayerIds(g.teamB) \subseteq g.restartVotesB \cup {p}

\* C36: the restart guard is held only during the countdown its restart
\* began, so it is free whenever a session is finished; and a game:restart
\* on a finished session with both sides non-empty that makes the votes
\* unanimous performs the restart and clears both vote sets.
C36_VoteNeverDropped ==
    /\ [](\A gid \in DOMAIN activeGames :
             activeGames[gid].status # "countdown" => gid \notin restartLocks)
    /\ [][\A p \in Sockets :
             (AcceptsVote(p) /\ CompletesVote(p) /\ GameRestart(p))
             => /\ Restarted(playerToGame[p])
                /\ activeGames'[playerToGame[p]].restartVotesA = {}
                /\ activeGames'[playerToGame[p]].restartVotesB = {}]_vars

\* the third vote of a session of two against one has just restarted it:
\* the votes are cleared and the guard is taken
C36_Witness ==
    /\ 1 \in DOMAIN activeGames
    /\ 1 \in restartLocks
    /\ Len(activeGames[1].teamA.players) + Len(activeGames[1].teamB.players) = 3
    /\ activeGames[1].status = "countdown"
    /\ activeGames[1].restartVotesA = {}
    /\ activeGames[1].restartVotesB = {}
    /\ \E m \in out : m.ev = "game:update" /\ m.msg = "countdown"

\* C37: in every state each queue bucket holds at most one team.
C37_BucketAtMostOne ==
    \A size \in DOMAIN teamQueues : Len(teamQueues[size]) <= 1

\* a second team of two has just asked for a match while another team of two
\* was waiting: the two were matched and no bucket is left
C37_Witness ==
    /\ teamQueues = EmptyMap
    /\ Cardinality(DOMAIN teams) = 2
    /\ \A id \in DOMAIN teams : teamSize(teams[id]) = 2 /\ ~teams[id].inQueue
    /\ \E m \in out : m.ev = "game:started"

\* C38: in every state a socket is indexed to team t exactly if t is in the
\* registry and lists the socket as a participant, and no socket is a
\* participant of two teams or twice of one.
C38_IndexAgrees ==
    /\ \A p \in DOMAIN playerTeam :
          /\ playerTeam[p] \in DOMAIN teams
          /\ p \in Range(teams[playerTeam[p]].participants)
    /\ \A t \in DOMAIN teams :
          /\ \A p \in Range(teams[t].participants) :
                p \in DOMAIN playerTeam /\ playerTeam[p] = t
          /\ Cardinality(Range(teams[t].participants)) = Len(teams[t].participants)
    /\ \A t, u \in DOMAIN teams :
          t # u => Range(teams[t].participants) \cap Range(teams[u].participants) = {}

\* two teams of two exist and a member of one has just been refused by the
\* other
C38_Witness ==
    /\ Cardinality(DOMAIN teams) = 2
    /\ \A id \in DOMAIN teams : teamSize(teams[id]) = 2
    /\ \E m \in out : m.ev = "team:error" /\ m.msg = "Already in a team"

\* the click counter of player id on a side
ClicksOf(side, id) == side.players[PlayerIndex(side, id)].clicks

\* a step changes a click total of a session or the counter of a player who
\* stays in it
CountsChange(g, h) ==
    \/ h.teamA.totalClicks # g.teamA.totalClicks
    \/ h.teamB.totalClicks # g.teamB.totalClicks
    \/ \E id \in PlayerIds(g.teamA) \cap PlayerIds(h.teamA) :
          ClicksOf(h.teamA, id) # ClicksOf(g.teamA, id)
    \/ \E id \in PlayerIds(g.teamB) \cap PlayerIds(h.teamB) :
          ClicksOf(h.teamB, id) # ClicksOf(g.teamB, id)

\* side t is side s with the counter of exactly one player, id, and the total
\* raised by one
RaisedByOne(s, t, id) ==
    /\ id \in PlayerIds(s)
    /\ Len(t.players) = Len(s.players)
    /\ t.totalClicks = s.totalClicks + 1
    /\ \A i \in DOMAIN s.players :
          /\ t.players[i].id = s.players[i].id
          /\ t.players[i].clicks
                = s.players[i].clicks + (IF s.players[i].id = id THEN 1 ELSE 0)

\* every counter and both totals of the session are 0
AllZero(h) ==
    /\ h.teamA.totalClicks = 0
    /\ h.teamB.totalClicks = 0
    /\ \A i \in DOMAIN h.teamA.players : h.teamA.players[i].clicks = 0
    /\ \A i \in DOMAIN h.teamB.players : h.teamB.players[i].clicks = 0

\* C39 as stated, its first part: a step changes a click total or a counter of
\* a session only if the session is active.
C39_ChangeOnlyActive ==
    [][\A gid \in GameIds :
          (/\ gid \in DOMAIN activeGames
           /\ gid \in DOMAIN activeGames'
           /\ CountsChange(activeGames[gid], activeGames'[gid]))
          => activeGames[gid].status = "active"]_vars

\* C39: click totals and counters of a session change only by an accepted
\* click, in an active session, or by the restart of a finished session, which
\* sets them all to 0; every accepted click raises the counter of the clicking
\* player alone and the total of that player's side by 1 and leaves the other
\* side as it is; and in every state the totals of the two sides differ by at
\* most WIN_THRESHOLD.
C39_ClickTotals ==
    /\ [](\A gid \in DOMAIN activeGames :
             /\ activeGames[gid].teamB.totalClicks
                   - activeGames[gid].teamA.totalClicks <= WIN_THRESHOLD
             /\ activeGames[gid].teamA.totalClicks
                   - activeGames[gid].teamB.totalClicks <= WIN_THRESHOLD)
    /\ [][\A gid \in GameIds :
             (/\ gid \in DOMAIN activeGames
              /\ gid \in DOMAIN activeGames'
              /\ CountsChange(activeGames[gid], activeGames'[gid]))
             => LET g == activeGames[gid]
                    h == activeGames'[gid]
                IN IF g.status = "active"
                   THEN \E p \in Sockets :
                           /\ GameClick(p)
                           /\ clickError(p) = ""
                           /\ playerToGame[p] = gid
                   ELSE /\ g.status = "finished"
                        /\ h.status = "countdown"
                        /\ AllZero(h)]_vars
    /\ [][\A p \in Sockets :
             (GameClick(p) /\ clickError(p) = "")
             => LET g == activeGames[playerToGame[p]]
                    h == activeGames'[playerToGame[p]]
                IN /\ playerToGame[p] \in DOMAIN activeGames'
                   /\ IF p \in PlayerIds(g.teamA)
                      THEN RaisedByOne(g.teamA, h.teamA, p) /\ h.teamB = g.teamB
                      ELSE RaisedByOne(g.teamB, h.teamB, p) /\ h.teamA = g.teamA]_vars

\* a session has just been won by the click that brought side A's total
\* WIN_THRESHOLD above side B's, after side B had clicked too
C39_Witness ==
    /\ 1 \in DOMAIN activeGames
    /\ activeGames[1].status = "finished"
    /\ Len(activeGames[1].teamA.players) > 0
    /\ Len(activeGames[1].teamB.players) > 0
    /\ activeGames[1].teamA.totalClicks = WIN_THRESHOLD + MaxMinor
    /\ activeGames[1].teamB.totalClicks = MaxMinor
    /\ activeGames[1].winner = "teamA"
    /\ activeGames[1].restartVotesA = {}
    /\ activeGames[1].restartVotesB = {}
    /\ \E m \in out : m.ev = "game:update"

====
